---- MODULE Spec2Model ----
(***************************************************************************)
(* State-machine model of src/system_benchmark.py: the benchmark harness   *)
(* (CPU, memory, network and accelerator probes, the scaled configuration  *)
(* model and the report aggregator main).                                  *)
(*                                                                         *)
(* Conventions.                                                            *)
(*   - An optional Python value (None or v) is a sequence of length <= 1:  *)
(*     None is << >> and v is << v >>.                                     *)
(*   - A Python float is an exact rational [n |-> numerator, d |-> denom]  *)
(*     in lowest terms with d > 0; float division by a zero rational       *)
(*     raises ZeroDivisionError as in Python.                              *)
(*   - A Python dict is a function whose DOMAIN is its set of keys.        *)
(*   - Each function of the source has a frame variable holding its        *)
(*     position (pc) and locals; an uncaught exception is recorded in the  *)
(*     frame as pc = "raised" with the exception's class name.             *)
(***************************************************************************)
EXTENDS Integers, Sequences, FiniteSets, TLC

VARIABLES
    host,      \* facts of the machine and of the installed libraries
    args,      \* the parsed command line (argparse namespace)
    mainF,     \* frame of main
    cpuF,      \* frame of bench_cpu
    workers,   \* tasks submitted to the multiprocessing pool of bench_cpu
    ramF,      \* frame of bench_ram (and of the path it runs)
    netF,      \* frame of bench_network
    gpuF,      \* frame of bench_gpu
    fmtF,      \* frame of format_bytes_per_sec when it is called on its own
    jsonF,     \* frame of a json.dumps / json.loads round trip of a report
    stdout,    \* lines printed on standard output
    stderr     \* lines printed on standard error

vars ==
    <<host, args, fmtF, jsonF, mainF, cpuF, workers, ramF, netF, gpuF,
      stdout, stderr>>

\* everything but the frame of one probe
notCpu == <<host, args, fmtF, jsonF, mainF, ramF, netF, gpuF, stdout, stderr>>
notRam == <<host, args, fmtF, jsonF, mainF, cpuF, workers, netF, gpuF, stdout, stderr>>
notNet == <<host, args, fmtF, jsonF, mainF, cpuF, workers, ramF, gpuF, stdout, stderr>>
notGpu == <<host, args, fmtF, jsonF, mainF, cpuF, workers, ramF, netF, stdout, stderr>>

(***************************************************************************)
(* Bounds of the model.                                                    *)
(***************************************************************************)
\* largest number of hash iterations a worker loop completes before its deadline
MaxIter == 1
\* largest logical core count of a modelled host
MaxCores == 9
\* longest time (seconds) the speed-test client waits on a silent service
\* before its own module-level timeout raises
MaxLibWait == 2

(***************************************************************************)
(* Optional values and rationals.                                          *)
(***************************************************************************)
None == << >>
Some(v) == << v >>
Val(o) == o[1]

RECURSIVE Gcd(_, _)
Gcd(a, b) == IF b = 0 THEN a ELSE Gcd(b, a % b)
Abs(i) == IF i < 0 THEN -i ELSE i

\* the rational n/d (d # 0) in lowest terms with a positive denominator
Rat(n, d) ==
    LET g == Gcd(Abs(n), Abs(d))
        s == IF d < 0 THEN -1 ELSE 1
    IN  [n |-> s * (n \div g), d |-> s * (d \div g)]
RatOfInt(i) == [n |-> i, d |-> 1]
\* float("nan"), which --cpu-seconds nan passes to bench_cpu: not a rational
NaN == [n |-> 0, d |-> 0]
IsNaN(x) == x.d = 0
RatIsZero(r) == r.n = 0
RatLt(a, b) == a.n * b.d < b.n * a.d
RatLe(a, b) == a.n * b.d <= b.n * a.d
RatMax(a, b) == IF RatLe(b, a) THEN a ELSE b
RatMin(a, b) == IF RatLe(a, b) THEN a ELSE b
\* a / b for rationals, b nonzero (cross-cancelled first to keep the numbers small)
\* a quotient with a NaN operand is NaN
RatDiv(a, b) ==
    LET g1 == Gcd(Abs(a.n), Abs(b.n))
        g2 == Gcd(a.d, b.d)
        h1 == IF g1 = 0 THEN 1 ELSE g1
    IN  IF IsNaN(a) \/ IsNaN(b) THEN NaN
        ELSE Rat((a.n \div h1) * (b.d \div g2),
                 (a.d \div g2) * (b.n \div h1))
\* a * b for rationals
RatMul(a, b) ==
    LET g1 == Gcd(Abs(a.n), b.d)
        g2 == Gcd(Abs(b.n), a.d)
        h1 == IF g1 = 0 THEN 1 ELSE g1
        h2 == IF g2 = 0 THEN 1 ELSE g2
    IN  Rat((a.n \div h1) * (b.n \div h2), (a.d \div h2) * (b.d \div h1))
RatSub(a, b) == Rat(a.n * b.d - b.n * a.d, a.d * b.d)

Min2(a, b) == IF a <= b THEN a ELSE b
Max2(a, b) == IF a >= b THEN a ELSE b

\* d[k] = v on a dict d
Put(d, k, v) == [x \in DOMAIN d \cup {k} |-> IF x = k THEN v ELSE d[x]]

\* x rounded to the nearest multiple of 1/scale, ties to even, as the
\* integer number of those multiples (round(), and the .1f, .2f and .3f
\* formats)
RoundTo(x, scale) ==
    LET q == x.n \div x.d
        r == x.n % x.d
        h == (r * scale) \div x.d
        rest == (r * scale) % x.d
        base == q * scale + h
    IN  IF 2 * rest > x.d THEN base + 1
        ELSE IF 2 * rest < x.d THEN base
        ELSE IF base % 2 = 0 THEN base ELSE base + 1

(***************************************************************************)
(* cpu_sha256_worker (lines 35-45).  The loop runs while the clock is      *)
(* before the deadline; the number of completed iterations is what the     *)
(* clock allows, and the function returns count * block_size.              *)
(***************************************************************************)
block_size == 1024

\* iteration counts the deadline loop can complete for a given duration
LoopCounts(duration_s) == IF duration_s.n <= 0 THEN {0} ELSE 0..MaxIter

cpu_sha256_worker(count) == count * block_size

(***************************************************************************)
(* format_bytes_per_sec (lines 26-32).  The rendered string "m.mm unit" is *)
(* the pair of the mantissa in hundredths (the two printed decimals) and   *)
(* the unit.                                                               *)
(***************************************************************************)
units == <<"B/s", "KB/s", "MB/s", "GB/s", "TB/s">>

\* A float beyond the range of the model's integers is the rational with a
\* binary exponent [n, d, e], standing for (n / d) * 1024^e, with
\* 1 <= n / d < 1024 when e > 0; a rational without the field e has e = 0.
Exponent(bps) == IF "e" \in DOMAIN bps THEN bps.e ELSE 0
RECURSIVE Pow1024(_)
Pow1024(k) == IF k = 0 THEN 1 ELSE 1024 * Pow1024(k - 1)
\* the rational a float with an exponent stands for
Plain(bps) ==
    IF IsNaN(bps) THEN NaN
    ELSE RatMul([n |-> bps.n, d |-> bps.d],
                RatOfInt(Pow1024(Exponent(bps))))

\* bps > 1024
Ge1024_Strict(bps) ==
    IF Exponent(bps) > 0 THEN TRUE ELSE RatLt(RatOfInt(1024), bps)
\* line 29: bps >= 1024 (false of NaN, as every comparison with NaN)
Ge1024(bps) ==
    IF IsNaN(bps) THEN FALSE
    ELSE IF Exponent(bps) > 0 THEN TRUE ELSE RatLe(RatOfInt(1024), bps)

\* line 30: bps /= 1024.0
Div1024(bps) ==
    IF Exponent(bps) > 0 THEN [bps EXCEPT !.e = @ - 1]
    ELSE RatDiv(bps, RatOfInt(1024))

\* the while loop of lines 29-31; i is the 0-based index into units
RECURSIVE FormatLoop(_, _)
FormatLoop(bps, i) ==
    IF Ge1024(bps) /\ i < Len(units) - 1
    THEN FormatLoop(Div1024(bps), i + 1)
    ELSE [bps |-> Plain(bps), i |-> i]

\* f"{x:.2f}": x rounded to hundredths
Round2(x) == RoundTo(x, 100)

format_bytes_per_sec(bps) ==
    LET f == FormatLoop(bps, 0)
    IN  [hundredths |-> IF IsNaN(f.bps) THEN "nan" ELSE Round2(f.bps),
         unit |-> units[f.i + 1]]

(***************************************************************************)
(* bench_cpu (lines 48-73).                                                *)
(***************************************************************************)
\* hard cap on the default number of worker processes (lines 56 and 58)
HardCap == 8

\* mutant of OrOne: an undetermined count falls back to the cap
OrOne_Cap(count) == IF count = None \/ Val(count) = 0 THEN 8 ELSE Val(count)

\* mutant of DefaultMaxProcs: the min(..., 8) of lines 56 and 58 is dropped
DefaultMaxProcs_NoCap(h) ==
    LET c == IF h.psutil THEN h.ps_cpu_count ELSE h.os_cpu_count
    IN  IF c = None \/ Val(c) = 0 THEN 1 ELSE Val(c)

\* lines 54-58: the worker count when the caller passes none.  Python's
\* `x or 1` yields 1 when x is None or 0.
OrOne(count) == IF count = None \/ Val(count) = 0 THEN 1 ELSE Val(count)

DefaultMaxProcs(h) ==
    IF h.psutil
    THEN Max2(1, Min2(OrOne(h.ps_cpu_count), HardCap))
    ELSE Max2(1, Min2(OrOne(h.os_cpu_count), HardCap))

\* a frame of bench_cpu at its entry
CpuEntry(duration_s, max_procs) ==
    [pc |-> "single", duration_s |-> duration_s, max_procs |-> max_procs,
     arg_max_procs |-> max_procs,
     single_bytes |-> 0, single_bps |-> None, next |-> 1, multi_bytes |-> 0,
     exc |-> "", ret |-> None]

NoWorkers == << >>

\* lines 50-51: the single-thread run and its rate; a zero duration makes
\* the float division raise ZeroDivisionError
CpuSingle ==
    /\ cpuF.pc = "single"
    /\ \E count \in LoopCounts(cpuF.duration_s) :
         LET single_bytes == cpu_sha256_worker(count)
         IN  IF RatIsZero(cpuF.duration_s)
             THEN cpuF' = [cpuF EXCEPT !.pc = "raised",
                                       !.single_bytes = single_bytes,
                                       !.exc = "ZeroDivisionError"]
             ELSE cpuF' = [cpuF EXCEPT !.pc = "procs",
                                       !.single_bytes = single_bytes,
                                       !.single_bps =
                                           Some(RatDiv(RatOfInt(single_bytes),
                                                       cpuF.duration_s))]
    /\ UNCHANGED <<notCpu, workers>>

\* lines 54-58
CpuProcs ==
    /\ cpuF.pc = "procs"
    /\ cpuF' = [cpuF EXCEPT !.pc = "pool",
                            !.max_procs = IF cpuF.max_procs = None
                                          THEN Some(DefaultMaxProcs(host))
                                          ELSE cpuF.max_procs]
    /\ UNCHANGED <<notCpu, workers>>

\* lines 60-61: mp.Pool(processes=max_procs) raises ValueError for a count
\* below 1 and OSError when the processes cannot be created; otherwise one
\* task per process is submitted
CpuPool ==
    /\ cpuF.pc = "pool"
    /\ IF Val(cpuF.max_procs) < 1
       THEN /\ cpuF' = [cpuF EXCEPT !.pc = "raised", !.exc = "ValueError"]
            /\ UNCHANGED workers
       ELSE \/ /\ cpuF' = [cpuF EXCEPT !.pc = "raised", !.exc = "OSError"]
               /\ UNCHANGED workers
            \/ /\ cpuF' = [cpuF EXCEPT !.pc = "collect"]
               /\ workers' = [w \in 1..Val(cpuF.max_procs) |->
                                 [st |-> "pending", count |-> 0, bytes |-> 0]]
    /\ UNCHANGED notCpu

\* a pool task that adds its bytes to a counter shared with the first task
PoolWorkerRun_Shared(w) ==
    /\ cpuF.pc = "collect"
    /\ workers[w].st = "pending"
    /\ \E count \in LoopCounts(cpuF.duration_s) :
         workers' = [workers EXCEPT ![w] =
                        [st |-> "done", count |-> count,
                         bytes |-> workers[1].bytes + cpu_sha256_worker(count)]]
    /\ UNCHANGED <<notCpu, cpuF>>

\* a pool task: cpu_sha256_worker(duration_s) run in a worker process; it
\* returns its byte count or raises
PoolWorkerRun(w) ==
    /\ cpuF.pc = "collect"
    /\ workers[w].st = "pending"
    /\ \/ \E count \in LoopCounts(cpuF.duration_s) :
            workers' = [workers EXCEPT ![w] =
                           [st |-> "done", count |-> count,
                            bytes |-> cpu_sha256_worker(count)]]
       \/ workers' = [workers EXCEPT ![w] =
                         [st |-> "failed", count |-> 0, bytes |-> 0]]
    /\ UNCHANGED <<notCpu, cpuF>>

\* the task's result once get() has handed it to the caller
Collected == [st |-> "collected", count |-> 0, bytes |-> 0]

\* what the with-block's exit (pool.terminate) leaves of the tasks when an
\* exception leaves the block: tasks still running are killed
Terminate(ws) ==
    [w \in DOMAIN ws |-> IF ws[w].st = "pending"
                         THEN [st |-> "terminated", count |-> 0, bytes |-> 0]
                         ELSE ws[w]]

\* mutant of CpuGet: a failed task counts for zero bytes instead of raising
CpuGet_Swallow ==
    /\ cpuF.pc = "collect"
    /\ cpuF.next <= Val(cpuF.max_procs)
    /\ workers[cpuF.next].st \in {"done", "failed"}
    /\ cpuF' = [cpuF EXCEPT !.multi_bytes = @ + workers[cpuF.next].bytes,
                            !.next = @ + 1]
    /\ workers' = [workers EXCEPT ![cpuF.next] =
                      IF @.st = "done"
                      THEN [st |-> "collected", count |-> 0, bytes |-> 0]
                      ELSE @]
    /\ UNCHANGED notCpu

\* line 62: sum(p.get() for p in per_proc): the results are collected in
\* submission order; get() blocks until the task is over and re-raises its
\* exception
CpuGet ==
    /\ cpuF.pc = "collect"
    /\ cpuF.next <= Val(cpuF.max_procs)
    /\ LET p == workers[cpuF.next]
       IN  \/ /\ p.st = "done"
              /\ cpuF' = [cpuF EXCEPT !.multi_bytes = @ + p.bytes,
                                      !.next = @ + 1]
              /\ workers' = [workers EXCEPT ![cpuF.next] = Collected]
           \/ /\ p.st = "failed"
              /\ cpuF' = [cpuF EXCEPT !.pc = "raised", !.exc = "WorkerError"]
              /\ workers' = Terminate(workers)
    /\ UNCHANGED notCpu

\* mutant of CpuResult: the aggregate is divided by the worker count
CpuResult_PerWorker(f) ==
    LET multi_bps == RatDiv(RatDiv(RatOfInt(f.multi_bytes), f.duration_s),
                            RatOfInt(Val(f.max_procs)))
    IN  [algorithm |-> "sha256",
         duration_s |-> f.duration_s,
         single_thread_bytes_per_sec |-> Val(f.single_bps),
         multi_process_bytes_per_sec |-> multi_bps,
         processes |-> Val(f.max_procs),
         single_thread_human |-> format_bytes_per_sec(Val(f.single_bps)),
         multi_process_human |-> format_bytes_per_sec(multi_bps)]

\* lines 63-73 once every result is collected
CpuResult(f) ==
    LET multi_bps == RatDiv(RatOfInt(f.multi_bytes), f.duration_s)
    IN  [algorithm |-> "sha256",
         duration_s |-> f.duration_s,
         single_thread_bytes_per_sec |-> Val(f.single_bps),
         multi_process_bytes_per_sec |-> multi_bps,
         processes |-> Val(f.max_procs),
         single_thread_human |-> format_bytes_per_sec(Val(f.single_bps)),
         multi_process_human |-> format_bytes_per_sec(multi_bps)]

CpuReturn ==
    /\ cpuF.pc = "collect"
    /\ cpuF.next > Val(cpuF.max_procs)
    /\ cpuF' = [cpuF EXCEPT !.pc = "returned", !.ret = Some(CpuResult(cpuF))]
    /\ UNCHANGED <<notCpu, workers>>

bench_cpu ==
    \/ CpuSingle
    \/ CpuProcs
    \/ CpuPool
    \/ \E w \in DOMAIN workers : PoolWorkerRun(w)
    \/ CpuGet
    \/ CpuReturn

(***************************************************************************)
(* bench_ram (lines 168-190) with bench_ram_numpy (lines 76-119) and       *)
(* bench_ram_fallback (lines 122-165).                                     *)
(***************************************************************************)
MiB == 1024 * 1024

\* total memory of m MiB plus r bytes (r < 2^20); the split keeps every
\* number of the model within 32 bits
Mem(m, r) == [mib |-> m, rem |-> r]

\* mutant of TenPercent: a fifth of the total instead of a tenth
TenPercent_Fifth(t) == t.mib * 209715 + (t.mib + t.rem) \div 5

\* int(t * 0.10) for t = mib * 2^20 + rem bytes, 2^20 being 104857 * 10 + 6
TenPercent(t) == t.mib * 104857 + (t.mib * 6 + t.rem) \div 10

\* mutant of AutoSize: the 64 MiB floor of line 179 is dropped
AutoSize_NoFloor(total_mem) ==
    LET ten_percent == IF total_mem = None \/ Val(total_mem) = Mem(0, 0)
                       THEN TenPercent(Mem(256, 0))
                       ELSE TenPercent(Val(total_mem))
    IN  Min2(256 * MiB, ten_percent)

\* lines 177-179: the buffer size when the caller passes none; Python's
\* `total_mem or cap` yields cap when total_mem is None or 0
AutoSize(total_mem) ==
    LET cap == Mem(256, 0)
        ten_percent == IF total_mem = None \/ Val(total_mem) = Mem(0, 0)
                       THEN TenPercent(cap)
                       ELSE TenPercent(Val(total_mem))
    IN  Max2(64 * MiB, Min2(256 * MiB, ten_percent))

\* iterations of each timed loop (defaults of lines 76 and 122)
NumpyIterations == 5
FallbackIterations == 3

\* the floor max(t, 1e-9) of lines 134, 145 and 155
TimeFloor == [n |-> 1, d |-> 1000000000]

\* largest buffer (bytes) for which the clock may show no elapsed time
TinyBuffer == 1

\* t1 - t0 of one timed operation on a buffer of the given size, in seconds
Elapsed(size) ==
    IF size <= TinyBuffer THEN {Rat(0, 1), Rat(1, 2), Rat(1, 1)}
    ELSE {Rat(1, 2), Rat(1, 1)}

\* min(times) of lines 88, 98, 108, 133, 144 and 154
RECURSIVE MinTime(_)
MinTime(times) ==
    IF Len(times) = 1 THEN times[1]
    ELSE RatMin(times[1], MinTime(Tail(times)))

\* a frame of bench_ram at its entry; by names the path that measured each
\* of the three figures the frame holds
RamEntry(target_bytes) ==
    [pc |-> "size", arg_target_bytes |-> target_bytes, target_bytes |-> None,
     copy |-> None, write |-> None, read |-> None,
     by |-> [copy |-> "", write |-> "", read |-> ""], numpy_exc |-> "",
     exc |-> "", ret |-> None]

\* lines 111-119 and 157-165: the result of either path
RamResult(f, read_throughput) ==
    [buffer_size_bytes |-> Val(f.target_bytes),
     copy_bytes_per_sec |-> Val(f.copy),
     write_bytes_per_sec |-> Val(f.write),
     read_bytes_per_sec |-> read_throughput,
     copy_human |-> format_bytes_per_sec(Val(f.copy)),
     write_human |-> format_bytes_per_sec(Val(f.write)),
     read_human |-> format_bytes_per_sec(read_throughput)]

\* a result labelled numpy whatever the path
WithImplementation_Numpy(res, impl) ==
    [k \in DOMAIN res \cup {"implementation"} |->
        IF k = "implementation" THEN "numpy" ELSE res[k]]
\* lines 184 and 189: res["implementation"] = ...
WithImplementation(res, impl) ==
    [k \in DOMAIN res \cup {"implementation"} |->
        IF k = "implementation" THEN impl ELSE res[k]]

\* an explicit size clamped like the automatic one
TargetBytes_Clamped(arg, total_mem) ==
    IF arg = None THEN AutoSize(total_mem)
    ELSE Max2(64 * MiB, Min2(256 * MiB, Val(arg)))
\* lines 176-179: the automatic size only when no size was given
TargetBytes(arg, total_mem) ==
    IF arg = None THEN AutoSize(total_mem) ELSE Val(arg)

\* lines 170-181: total memory, the buffer size, and the choice of the path
RamSize ==
    /\ ramF.pc = "size"
    /\ LET total_mem == IF host.psutil THEN host.total_mem ELSE None
           target == TargetBytes(ramF.arg_target_bytes, total_mem)
       IN  ramF' = [ramF EXCEPT !.target_bytes = Some(target),
                                !.pc = IF host.np THEN "np_alloc"
                                       ELSE "fb_alloc"]
    /\ UNCHANGED notRam

\* line 186: an exception of the vectorized path is dropped and the
\* fallback runs
NumpyFailed(f, e) ==
    [f EXCEPT !.pc = "fb_alloc", !.numpy_exc = e,
              !.copy = None, !.write = None, !.read = None,
              !.by = [copy |-> "", write |-> "", read |-> ""]]

\* lines 78-79: a negative size makes randint raise ValueError; the
\* allocation may fail with MemoryError
RamNumpyAlloc ==
    /\ ramF.pc = "np_alloc"
    /\ IF Val(ramF.target_bytes) < 0
       THEN ramF' = NumpyFailed(ramF, "ValueError")
       ELSE \/ ramF' = NumpyFailed(ramF, "MemoryError")
            \/ ramF' = [ramF EXCEPT !.pc = "np_copy"]
    /\ UNCHANGED notRam

\* one timed loop of bench_ram_numpy: the throughput size / min(times), or
\* ZeroDivisionError when the minimum is zero
NumpyLoop(field, nextpc) ==
    \E times \in [1..NumpyIterations -> Elapsed(Val(ramF.target_bytes))] :
        LET t == MinTime(times)
        IN  IF RatIsZero(t)
            THEN ramF' = NumpyFailed(ramF, "ZeroDivisionError")
            ELSE ramF' = [ramF EXCEPT
                            ![field] = Some(RatDiv(RatOfInt(Val(ramF.target_bytes)), t)),
                            !.by[field] = "numpy",
                            !.pc = nextpc]

\* lines 82-89
RamNumpyCopy ==
    /\ ramF.pc = "np_copy"
    /\ NumpyLoop("copy", "np_fill")
    /\ UNCHANGED notRam

\* lines 92-99
RamNumpyFill ==
    /\ ramF.pc = "np_fill"
    /\ NumpyLoop("write", "np_read")
    /\ UNCHANGED notRam

\* lines 102-119 and 184-185
RamNumpyRead ==
    /\ ramF.pc = "np_read"
    /\ \E times \in [1..NumpyIterations -> Elapsed(Val(ramF.target_bytes))] :
        LET t == MinTime(times)
        IN  IF RatIsZero(t)
            THEN ramF' = NumpyFailed(ramF, "ZeroDivisionError")
            ELSE LET r == RatDiv(RatOfInt(Val(ramF.target_bytes)), t)
                 IN  ramF' = [ramF EXCEPT
                                !.read = Some(r),
                                !.by.read = "numpy",
                                !.pc = "returned",
                                !.ret = Some(WithImplementation(
                                           RamResult(ramF, r), "numpy"))]
    /\ UNCHANGED notRam

\* lines 123-124: os.urandom raises ValueError for a negative size; the
\* allocation may fail with MemoryError.  Nothing catches either.
RamFallbackAlloc ==
    /\ ramF.pc = "fb_alloc"
    /\ IF Val(ramF.target_bytes) < 0
       THEN ramF' = [ramF EXCEPT !.pc = "raised", !.exc = "ValueError"]
       ELSE \/ ramF' = [ramF EXCEPT !.pc = "raised", !.exc = "MemoryError"]
            \/ ramF' = [ramF EXCEPT !.pc = "fb_copy"]
    /\ UNCHANGED notRam

\* size / max(min(times), 1e-9) of lines 133-134, 144-145 and 154-155
FallbackThroughput(size, times) ==
    RatDiv(RatOfInt(size), RatMax(MinTime(times), TimeFloor))

\* lines 127-134
RamFallbackCopy ==
    /\ ramF.pc = "fb_copy"
    /\ \E times \in [1..FallbackIterations -> Elapsed(Val(ramF.target_bytes))] :
         ramF' = [ramF EXCEPT
                    !.copy = Some(FallbackThroughput(Val(ramF.target_bytes), times)),
                    !.by.copy = "python",
                    !.pc = "fb_write"]
    /\ UNCHANGED notRam

\* lines 137-145
RamFallbackWrite ==
    /\ ramF.pc = "fb_write"
    /\ \E times \in [1..FallbackIterations -> Elapsed(Val(ramF.target_bytes))] :
         ramF' = [ramF EXCEPT
                    !.write = Some(FallbackThroughput(Val(ramF.target_bytes), times)),
                    !.by.write = "python",
                    !.pc = "fb_read"]
    /\ UNCHANGED notRam

\* lines 148-165 and 188-190
RamFallbackRead ==
    /\ ramF.pc = "fb_read"
    /\ \E times \in [1..FallbackIterations -> Elapsed(Val(ramF.target_bytes))] :
         LET r == FallbackThroughput(Val(ramF.target_bytes), times)
         IN  ramF' = [ramF EXCEPT
                        !.read = Some(r),
                        !.by.read = "python",
                        !.pc = "returned",
                        !.ret = Some(WithImplementation(
                                   RamResult(ramF, r), "python"))]
    /\ UNCHANGED notRam

bench_ram ==
    \/ RamSize
    \/ RamNumpyAlloc
    \/ RamNumpyCopy
    \/ RamNumpyFill
    \/ RamNumpyRead
    \/ RamFallbackAlloc
    \/ RamFallbackCopy
    \/ RamFallbackWrite
    \/ RamFallbackRead

(***************************************************************************)
(* bench_network (lines 193-213).                                          *)
(***************************************************************************)
\* what the speed-test service reports: bits per second and milliseconds
DownloadRates == {RatOfInt(8000000), RatOfInt(16000000)}
UploadRates == {RatOfInt(800000), RatOfInt(1600000)}
Pings == {Rat(25, 2), RatOfInt(40)}

\* a frame of bench_network at its entry.  waited is the time spent blocked
\* on a service that does not answer; failed_at names the step that raised.
NetEntry(timeout_s) ==
    [pc |-> "import", timeout_s |-> timeout_s, download_bps |-> None,
     upload_bps |-> None, waited |-> 0, unanswered |-> FALSE,
     failed_at |-> "", ret |-> None]

\* mutant of NetErrorResult: the figures measured before the failure are
\* returned with the error
NetErrorResult_Partial(f, msg) ==
    IF f.download_bps = None THEN [error |-> msg]
    ELSE [error |-> msg, download_bits_per_sec |-> Val(f.download_bps)]

\* line 213: return {"error": str(e)}
NetErrorResult(f, msg) == [error |-> msg]

\* lines 205-211
NetResult(f, ping_ms) ==
    [download_bits_per_sec |-> Val(f.download_bps),
     upload_bits_per_sec |-> Val(f.upload_bps),
     ping_ms |-> ping_ms,
     download_human |->
         format_bytes_per_sec(RatDiv(Val(f.download_bps), RatOfInt(8))),
     upload_human |->
         format_bytes_per_sec(RatDiv(Val(f.upload_bps), RatOfInt(8)))]

\* lines 194-196: safe_import("speedtest")
NetImport ==
    /\ netF.pc = "import"
    /\ \/ netF' = [netF EXCEPT !.pc = "returned", !.failed_at = "import",
                               !.ret = Some([error |->
                                   "speedtest module not available"])]
       \/ netF' = [netF EXCEPT !.pc = "connect"]
    /\ UNCHANGED notNet

\* a call of the speed-test client that raises: at once (an HTTP or
\* configuration error), or after the client's own timeout when the service
\* does not answer.  timeout_s is not passed to the client (lines 200-201).
NetRaises(step) ==
    \/ netF' = [netF EXCEPT !.pc = "returned", !.failed_at = step,
                            !.ret = Some(NetErrorResult(netF, "SpeedtestException"))]
    \/ \E w \in 1..MaxLibWait :
         netF' = [netF EXCEPT !.pc = "returned", !.failed_at = step,
                              !.waited = @ + w, !.unanswered = TRUE,
                              !.ret = Some(NetErrorResult(netF, "timed out"))]

\* line 198: speedtest.Speedtest()
NetConnect ==
    /\ netF.pc = "connect"
    /\ \/ NetRaises("connect")
       \/ netF' = [netF EXCEPT !.pc = "server"]
    /\ UNCHANGED notNet

\* line 199: st.get_best_server()
NetServer ==
    /\ netF.pc = "server"
    /\ \/ NetRaises("server")
       \/ netF' = [netF EXCEPT !.pc = "download"]
    /\ UNCHANGED notNet

\* line 202: st.download()
NetDownload ==
    /\ netF.pc = "download"
    /\ \/ NetRaises("download")
       \/ \E r \in DownloadRates :
            netF' = [netF EXCEPT !.pc = "upload", !.download_bps = Some(r)]
    /\ UNCHANGED notNet

\* line 203: st.upload(pre_allocate=False)
NetUpload ==
    /\ netF.pc = "upload"
    /\ \/ NetRaises("upload")
       \/ \E r \in UploadRates :
            netF' = [netF EXCEPT !.pc = "result", !.upload_bps = Some(r)]
    /\ UNCHANGED notNet

\* lines 204-211: st.results.ping and the numeric result
NetReturn ==
    /\ netF.pc = "result"
    /\ \E ping_ms \in Pings :
         netF' = [netF EXCEPT !.pc = "returned",
                              !.ret = Some(NetResult(netF, ping_ms))]
    /\ UNCHANGED notNet

bench_network ==
    \/ NetImport
    \/ NetConnect
    \/ NetServer
    \/ NetDownload
    \/ NetUpload
    \/ NetReturn

(***************************************************************************)
(* bench_gpu (lines 216-253).                                              *)
(***************************************************************************)
\* matrix dimension of the GEMM benchmark (line 228)
N == 1024

\* t1 - t0 of the timed, synchronized matrix multiply, in seconds
GemmTimes == {Rat(1, 1000), Rat(1, 100)}

\* line 240: (2 * N ** 3) / dt / 1e9
GemmGflops(dt) ==
    RatDiv(RatMul(RatDiv(RatOfInt(N * N), RatOfInt(1000000000)),
                  RatOfInt(2 * N)), dt)

\* str.strip() on a text held as a sequence of characters
IsSpace(c) == c \in {" ", "\n", "\t"}
RECURSIVE LStrip(_)
LStrip(t) == IF t # << >> /\ IsSpace(Head(t)) THEN LStrip(Tail(t)) ELSE t
RECURSIVE RStrip(_)
RStrip(t) ==
    IF t # << >> /\ IsSpace(t[Len(t)]) THEN RStrip(SubSeq(t, 1, Len(t) - 1))
    ELSE t
\* a strip() that keeps the text as it is
Strip_Keep(t) == t
Strip(t) == RStrip(LStrip(t))

\* what `nvidia-smi --query-gpu=name,memory.total --format=csv,noheader`
\* prints
SmiOutputs == {<<"T", "4", ",", " ", "1", "5", "G", "\n">>}

\* a frame of bench_gpu at its entry; raised lists the exceptions raised
\* inside the function so far
GpuEntry ==
    [pc |-> "import", torch |-> FALSE, smi |-> "", results |-> None,
     raised |-> << >>, ret |-> None]

\* lines 218-219: safe_import("torch") and the initial result
GpuImport ==
    /\ gpuF.pc = "import"
    /\ \E torch \in BOOLEAN :
         gpuF' = [gpuF EXCEPT !.pc = "detect", !.torch = torch,
                              !.results = Some([available |-> FALSE])]
    /\ UNCHANGED notGpu

\* line 252 and 253: an exception inside the try block is recorded and the
\* result returned
GpuCaught(f, msg) ==
    [f EXCEPT !.pc = "returned",
              !.raised = Append(f.raised, msg),
              !.ret = Some(Put(Val(f.results), "error", msg))]

\* lines 221-224: torch.cuda.is_available() and get_device_name(0)
GpuDetect ==
    /\ gpuF.pc = "detect"
    /\ IF gpuF.torch
       THEN \/ gpuF' = GpuCaught(gpuF, "RuntimeError: CUDA driver")
            \/ gpuF' = [gpuF EXCEPT !.pc = "smi"]
            \/ gpuF' = [gpuF EXCEPT
                          !.pc = "gemm",
                          !.results = Some(Put(Put(Val(gpuF.results),
                                           "available", TRUE), "device", "T4"))]
       ELSE gpuF' = [gpuF EXCEPT !.pc = "smi"]
    /\ UNCHANGED notGpu

\* lines 226-242: the warm-up and the timed matrix multiply
GpuGemm ==
    /\ gpuF.pc = "gemm"
    /\ \/ gpuF' = GpuCaught(gpuF, "RuntimeError: CUDA out of memory")
       \/ \E t \in GemmTimes :
            LET dt == RatMax(t, TimeFloor)
            IN  gpuF' = [gpuF EXCEPT
                           !.pc = "returned",
                           !.ret = Some(Put(Put(Val(gpuF.results),
                                        "gemm_gflops", GemmGflops(dt)),
                                        "gemm_time_s", dt))]
    /\ UNCHANGED notGpu

\* lines 245-250: the nvidia-smi fallback: the tool is not on the PATH, or
\* it fails and the exception is dropped, or its output is kept
GpuSmi ==
    /\ gpuF.pc = "smi"
    /\ \/ gpuF' = [gpuF EXCEPT !.pc = "returned", !.smi = "absent",
                               !.ret = gpuF.results]
       \/ gpuF' = [gpuF EXCEPT !.pc = "returned", !.smi = "raised",
                               !.raised = Append(gpuF.raised,
                                                 "CalledProcessError"),
                               !.ret = gpuF.results]
       \/ \E out \in SmiOutputs :
            gpuF' = [gpuF EXCEPT
                       !.pc = "returned", !.smi = "ran",
                       !.ret = Some(Put(Val(gpuF.results), "nvidia_smi",
                                        Strip(out)))]
    /\ UNCHANGED notGpu

bench_gpu ==
    \/ GpuImport
    \/ GpuDetect
    \/ GpuGemm
    \/ GpuSmi

(***************************************************************************)
(* gather_system_info (lines 262-276).                                     *)
(***************************************************************************)
gather_system_info(h) ==
    LET info == [platform |-> "platform", python |-> "python",
                 cpu_count |-> h.os_cpu_count]
    IN  IF h.psutil /\ h.total_mem # None
        THEN Put(Put(Put(Put(info,
                 "memory_total_bytes", Val(h.total_mem)),
                 "memory_available_bytes", Val(h.avail_mem)),
                 "cpu_logical_count", h.ps_cpu_count),
                 "cpu_physical_cores", h.phys_cores)
        ELSE info

(***************************************************************************)
(* main (lines 279-407).                                                   *)
(***************************************************************************)
\* str.upper() on the letters of the modelled alphabet
UpperOf == [c \in {"k", "m", "g", "a", "b", "c"} |->
               CASE c = "k" -> "K" [] c = "m" -> "M" [] c = "g" -> "G"
                 [] c = "a" -> "A" [] c = "b" -> "B" [] c = "c" -> "C"]
Upper(t) == [i \in 1..Len(t) |->
                IF t[i] \in DOMAIN UpperOf THEN UpperOf[t[i]] ELSE t[i]]

DigitOf == [c \in {"0", "1", "2", "3", "4", "5", "6", "7", "8", "9"} |->
               CASE c = "0" -> 0 [] c = "1" -> 1 [] c = "2" -> 2 [] c = "3" -> 3
                 [] c = "4" -> 4 [] c = "5" -> 5 [] c = "6" -> 6 [] c = "7" -> 7
                 [] c = "8" -> 8 [] c = "9" -> 9]
AllDigits(t) == \A i \in 1..Len(t) : t[i] \in DOMAIN DigitOf
RECURSIVE NatOf(_)
NatOf(t) == IF t = << >> THEN 0
            ELSE NatOf(SubSeq(t, 1, Len(t) - 1)) * 10 + DigitOf[t[Len(t)]]
RECURSIVE Pow10(_)
Pow10(k) == IF k = 0 THEN 1 ELSE 10 * Pow10(k - 1)

\* the text without its leading sign, and the sign
Unsigned(t) == IF t # << >> /\ Head(t) \in {"-", "+"} THEN Tail(t) ELSE t
SignOf(t) == IF t # << >> /\ Head(t) = "-" THEN -1 ELSE 1

\* int(t): an optional sign and at least one digit; None stands for
\* ValueError
ParseInt(t) ==
    LET u == Unsigned(t)
    IN  IF u # << >> /\ AllDigits(u) THEN Some(SignOf(t) * NatOf(u)) ELSE None

\* float(t): an optional sign, digits with at most one point and at least
\* one digit; None stands for ValueError
ParseFloat(t) ==
    LET u == Unsigned(t)
        dots == {i \in 1..Len(u) : u[i] = "."}
    IN  IF dots = {}
        THEN IF u # << >> /\ AllDigits(u)
             THEN Some(RatOfInt(SignOf(t) * NatOf(u))) ELSE None
        ELSE LET i == CHOOSE j \in dots : TRUE
                 whole == SubSeq(u, 1, i - 1)
                 frac == SubSeq(u, i + 1, Len(u))
             IN  IF Cardinality(dots) = 1 /\ AllDigits(whole) /\ AllDigits(frac)
                    /\ Len(whole) + Len(frac) > 0
                 THEN Some(Rat(SignOf(t) * NatOf(whole \o frac), Pow10(Len(frac))))
                 ELSE None

\* int(x) of a float: truncation towards zero
Trunc(x) == IF x.n >= 0 THEN x.n \div x.d ELSE -((-x.n) \div x.d)

\* lines 293-302: the override in bytes of a non-empty --ram-bytes text;
\* None stands for the exception of line 303
ParseRamBytes(text) ==
    LET t == Upper(Strip(text))
        last == IF t = << >> THEN "" ELSE t[Len(t)]
        body == IF t = << >> THEN << >> ELSE SubSeq(t, 1, Len(t) - 1)
        scaled(mult) == IF ParseFloat(body) = None THEN None
                        ELSE Some(Trunc(RatMul(Val(ParseFloat(body)),
                                               RatOfInt(mult))))
    IN  IF last = "G" THEN scaled(1024 * 1024 * 1024)
        ELSE IF last = "M" THEN scaled(1024 * 1024)
        ELSE IF last = "K" THEN scaled(1024)
        ELSE ParseInt(t)

\* lines 307-325
theoretical_baseline ==
    [gpus |-> 72, cpus |-> 36,
     dual_link_bandwidth_tbps |-> RatOfInt(150),
     fast_memory_tb |-> RatOfInt(50),
     gpu_memory_tb |-> RatOfInt(25),
     gpu_mem_bandwidth_tbps |-> RatOfInt(600),
     cpu_memory_tb |-> RatOfInt(20),
     cpu_mem_bandwidth_tbps |-> Rat(159, 10),
     cpu_cores |-> 3500,
     fp4_tensor_pf |-> RatOfInt(1100),
     fp8_pf |-> RatOfInt(720),
     int8_pf |-> RatOfInt(23),
     fp16_pf |-> RatOfInt(360),
     tf32_pf |-> RatOfInt(180),
     fp32_pf |-> RatOfInt(6),
     fp64_tf |-> Rat(1, 10),
     port |-> "PCIe 7.0"]

\* a clamp that returns its input
clamp_Identity(val, lo, hi) == val
\* lines 327-328
clamp(val, lo, hi) == RatMax(lo, RatMin(hi, val))

\* a count that is truncated, not rounded
ScaledCount_Trunc(b, hw_scale) ==
    Max2(1, Trunc(RatMul(RatOfInt(b), RatSub(RatOfInt(1), hw_scale))))
\* lines 337-339: max(1, int(round(base[k] * (1.0 - hw_scale))))
ScaledCount(b, hw_scale) ==
    Max2(1, RoundTo(RatMul(RatOfInt(b), RatSub(RatOfInt(1), hw_scale)), 1))

\* lines 341-347: base[k] * (1.0 - hw_scale)
ScaledHardware(x, hw_scale) == RatMul(x, RatSub(RatOfInt(1), hw_scale))

\* a tier scaled by the factor itself
ScaledPerformance_Retained(x, perf_scale) == RatMul(x, perf_scale)
\* lines 349-355: base[k] * (1.0 - perf_scale)
ScaledPerformance(x, perf_scale) == RatMul(x, RatSub(RatOfInt(1), perf_scale))

\* lines 333-361
scaled_config(base, hw_scale, perf_scale) ==
    [gpus |-> ScaledCount(base.gpus, hw_scale),
     cpus |-> ScaledCount(base.cpus, hw_scale),
     cpu_cores |-> ScaledCount(base.cpu_cores, hw_scale),
     fast_memory_tb |-> ScaledHardware(base.fast_memory_tb, hw_scale),
     gpu_memory_tb |-> ScaledHardware(base.gpu_memory_tb, hw_scale),
     cpu_memory_tb |-> ScaledHardware(base.cpu_memory_tb, hw_scale),
     dual_link_bandwidth_tbps |->
         ScaledHardware(base.dual_link_bandwidth_tbps, hw_scale),
     gpu_mem_bandwidth_tbps |->
         ScaledHardware(base.gpu_mem_bandwidth_tbps, hw_scale),
     cpu_mem_bandwidth_tbps |->
         ScaledHardware(base.cpu_mem_bandwidth_tbps, hw_scale),
     fp4_tensor_pf |-> ScaledPerformance(base.fp4_tensor_pf, perf_scale),
     fp8_pf |-> ScaledPerformance(base.fp8_pf, perf_scale),
     int8_pf |-> ScaledPerformance(base.int8_pf, perf_scale),
     fp16_pf |-> ScaledPerformance(base.fp16_pf, perf_scale),
     tf32_pf |-> ScaledPerformance(base.tf32_pf, perf_scale),
     fp32_pf |-> ScaledPerformance(base.fp32_pf, perf_scale),
     fp64_tf |-> ScaledPerformance(base.fp64_tf, perf_scale),
     port |-> base.port,
     notes |-> [hardware_scale_down |-> hw_scale,
                performance_loss |-> perf_scale]]

\* a multiple of 2 GiB per second
compute_memory_x_multiple_Double(copy_bps) ==
    RatDiv(RatDiv(copy_bps, RatOfInt(1024 * 1024 * 1024)), RatOfInt(2))
\* lines 256-259
compute_memory_x_multiple(copy_bps) ==
    LET gbps == RatDiv(copy_bps, RatOfInt(1024 * 1024 * 1024))
    IN  RatDiv(gbps, RatOfInt(1))

\* the frame of a function that is not running
Idle == [pc |-> "idle"]

\* the frame of main at its entry
MainEntry ==
    [pc |-> "parse", ram_bytes_override |-> None, scaled |-> None,
     system |-> None, cpu |-> None, ram |-> None, network |-> None,
     results |-> None, file |-> None, exc |-> ""]

\* an exception leaves main: the interpreter prints the traceback and exits
\* with a non-zero status
Abort(e) == [mainF EXCEPT !.pc = "aborted", !.exc = e]

\* lines 290-304: the --ram-bytes override
MainParse ==
    /\ mainF.pc = "parse"
    /\ IF args.ram_bytes = None \/ Val(args.ram_bytes) = << >>
       THEN /\ mainF' = [mainF EXCEPT !.pc = "scale"]
            /\ UNCHANGED stderr
       ELSE LET parsed == ParseRamBytes(Val(args.ram_bytes))
            IN  /\ mainF' = [mainF EXCEPT !.pc = "scale",
                                          !.ram_bytes_override = parsed]
                /\ stderr' = IF parsed = None
                             THEN Append(stderr,
                                      [kind |-> "invalid_ram_bytes",
                                       value |-> Val(args.ram_bytes)])
                             ELSE stderr
    /\ UNCHANGED <<host, args, fmtF, jsonF, cpuF, workers, ramF, netF, gpuF, stdout>>

\* lines 306-363: the clamped factors and the scaled configuration
MainScale ==
    /\ mainF.pc = "scale"
    /\ LET scale_down == clamp(args.scale_down, Rat(67, 100), Rat(71, 100))
           perf_retain == clamp(args.perf_retain, Rat(25, 100), Rat(30, 100))
       IN  mainF' = [mainF EXCEPT
                       !.pc = "system",
                       !.scaled = Some(scaled_config(theoretical_baseline,
                                                     scale_down, perf_retain))]
    /\ UNCHANGED <<host, args, fmtF, jsonF, cpuF, workers, ramF, netF, gpuF, stdout, stderr>>

\* the CPU and the memory probe entered together
MainSystem_Both ==
    /\ mainF.pc = "system"
    /\ mainF' = [mainF EXCEPT !.pc = "cpu",
                              !.system = Some(gather_system_info(host))]
    /\ cpuF' = CpuEntry(args.cpu_seconds, None)
    /\ ramF' = RamEntry(mainF.ram_bytes_override)
    /\ UNCHANGED <<host, args, fmtF, jsonF, workers, netF, gpuF, stdout, stderr>>

\* lines 366-367: gather_system_info(), then bench_cpu is entered
MainSystem ==
    /\ mainF.pc = "system"
    /\ mainF' = [mainF EXCEPT !.pc = "cpu",
                              !.system = Some(gather_system_info(host))]
    /\ cpuF' = CpuEntry(args.cpu_seconds, None)
    /\ UNCHANGED <<host, args, fmtF, jsonF, workers, ramF, netF, gpuF, stdout, stderr>>

\* lines 367-368: bench_cpu returns and bench_ram is entered, or the
\* exception of bench_cpu leaves main
MainCpuDone ==
    /\ mainF.pc = "cpu"
    /\ \/ /\ cpuF.pc = "returned"
          /\ mainF' = [mainF EXCEPT !.pc = "ram", !.cpu = cpuF.ret]
          /\ ramF' = RamEntry(mainF.ram_bytes_override)
       \/ /\ cpuF.pc = "raised"
          /\ mainF' = Abort(cpuF.exc)
          /\ UNCHANGED ramF
    /\ cpuF' = Idle
    /\ workers' = NoWorkers
    /\ UNCHANGED <<host, args, fmtF, jsonF, netF, gpuF, stdout, stderr>>

\* lines 368-369: bench_ram returns and bench_network is entered, or the
\* exception of bench_ram leaves main
MainRamDone ==
    /\ mainF.pc = "ram"
    /\ \/ /\ ramF.pc = "returned"
          /\ mainF' = [mainF EXCEPT !.pc = "network", !.ram = ramF.ret]
          /\ netF' = NetEntry(args.net_timeout)
       \/ /\ ramF.pc = "raised"
          /\ mainF' = Abort(ramF.exc)
          /\ UNCHANGED netF
    /\ ramF' = Idle
    /\ UNCHANGED <<host, args, fmtF, jsonF, cpuF, workers, gpuF, stdout, stderr>>

\* lines 369-370: bench_network returns and bench_gpu is entered
MainNetDone ==
    /\ mainF.pc = "network"
    /\ netF.pc = "returned"
    /\ mainF' = [mainF EXCEPT !.pc = "gpu", !.network = netF.ret]
    /\ netF' = Idle
    /\ gpuF' = GpuEntry
    /\ UNCHANGED <<host, args, fmtF, jsonF, cpuF, workers, ramF, stdout, stderr>>

\* line 376: the memory multiple, None without a copy figure
MemX(ram) ==
    IF "copy_bytes_per_sec" \in DOMAIN ram
    THEN Some(compute_memory_x_multiple(ram.copy_bytes_per_sec))
    ELSE None

\* lines 365-377: the report
Report(system, cpu, ram, network, gpu, scaled) ==
    LET results == [system |-> system,
                    cpu |-> cpu,
                    ram |-> ram,
                    network |-> network,
                    gpu |-> gpu,
                    theoretical_baseline |-> theoretical_baseline,
                    scaled_configuration |-> scaled]
    IN  Put(results, "memory_x_multiple", MemX(ram))

\* lines 365-377: bench_gpu returns and the report is assembled
MainGpuDone ==
    /\ mainF.pc = "gpu"
    /\ gpuF.pc = "returned"
    /\ mainF' = [mainF EXCEPT
                   !.pc = "summary",
                   !.results = Some(Report(Val(mainF.system), Val(mainF.cpu),
                                           Val(mainF.ram), Val(mainF.network),
                                           Val(gpuF.ret), Val(mainF.scaled)))]
    /\ gpuF' = Idle
    /\ UNCHANGED <<host, args, fmtF, jsonF, cpuF, workers, ramF, netF, stdout, stderr>>

\* dict.get(k, default)
Get(d, k, default) == IF k \in DOMAIN d THEN d[k] ELSE default

\* lines 380-395: the printed summary
SummaryLines(r) ==
    LET cpu == [kind |-> "CPU", single |-> r.cpu.single_thread_human,
                multi |-> r.cpu.multi_process_human,
                procs |-> r.cpu.processes]
        net == IF "error" \in DOMAIN r.network
               THEN [kind |-> "NETWORK", error |-> r.network.error]
               ELSE [kind |-> "NETWORK", down |-> r.network.download_human,
                     up |-> r.network.upload_human,
                     ping_tenths |-> RoundTo(r.network.ping_ms, 10)]
        ram == [kind |-> "RAM", copy |-> Get(r.ram, "copy_human", "-"),
                write |-> Get(r.ram, "write_human", "-"),
                read |-> Get(r.ram, "read_human", "-"),
                implementation |-> Get(r.ram, "implementation", "n/a")]
        memx == IF r.memory_x_multiple # None
                THEN << [kind |-> "MEMX",
                         hundredths |-> RoundTo(Val(r.memory_x_multiple), 100)] >>
                ELSE << >>
        gpu == IF Get(r.gpu, "available", FALSE)
               THEN [kind |-> "GPU", device |-> Get(r.gpu, "device", ""),
                     gflops_tenths |->
                         RoundTo(Get(r.gpu, "gemm_gflops", RatOfInt(0)), 10),
                     time_thousandths |->
                         RoundTo(Get(r.gpu, "gemm_time_s", RatOfInt(0)), 1000)]
               ELSE IF "nvidia_smi" \in DOMAIN r.gpu
               THEN [kind |-> "GPU", text |-> "detected via nvidia-smi"]
               ELSE [kind |-> "GPU", text |-> "not available"]
    IN  <<cpu, net, ram>> \o memx \o <<gpu>>

MainSummary ==
    /\ mainF.pc = "summary"
    /\ stdout' = stdout \o SummaryLines(Val(mainF.results))
    /\ mainF' = [mainF EXCEPT !.pc = "json_file"]
    /\ UNCHANGED <<host, args, fmtF, jsonF, cpuF, workers, ramF, netF, gpuF, stderr>>

\* a failure to write the file ends the run
MainJsonFile_Fatal ==
    /\ mainF.pc = "json_file"
    /\ IF args.json_path = None
       THEN /\ mainF' = [mainF EXCEPT !.pc = "raw"]
            /\ UNCHANGED stderr
       ELSE /\ mainF' = [mainF EXCEPT !.pc = "aborted", !.exc = "OSError"]
            /\ stderr' = Append(stderr, [kind |-> "json_write_failed"])
    /\ UNCHANGED <<host, args, fmtF, jsonF, cpuF, workers, ramF, netF, gpuF, stdout>>

\* lines 397-402: the optional JSON file; a failure to write is reported on
\* standard error
MainJsonFile ==
    /\ mainF.pc = "json_file"
    /\ IF args.json_path = None
       THEN /\ mainF' = [mainF EXCEPT !.pc = "raw"]
            /\ UNCHANGED stderr
       ELSE \/ /\ mainF' = [mainF EXCEPT !.pc = "raw",
                                         !.file = mainF.results]
               /\ UNCHANGED stderr
            \/ /\ mainF' = [mainF EXCEPT !.pc = "raw"]
               /\ stderr' = Append(stderr, [kind |-> "json_write_failed"])
    /\ UNCHANGED <<host, args, fmtF, jsonF, cpuF, workers, ramF, netF, gpuF, stdout>>

\* lines 405-407: an empty line, then the raw JSON document between its
\* sentinels
MainRaw ==
    /\ mainF.pc = "raw"
    /\ stdout' = stdout \o << [kind |-> "blank"],
                              [kind |-> "RAW_JSON_BEGIN"],
                              [kind |-> "json", doc |-> Val(mainF.results)],
                              [kind |-> "RAW_JSON_END"] >>
    /\ mainF' = [mainF EXCEPT !.pc = "done"]
    /\ UNCHANGED <<host, args, fmtF, jsonF, cpuF, workers, ramF, netF, gpuF, stderr>>

main ==
    \/ MainParse
    \/ MainScale
    \/ MainSystem
    \/ MainCpuDone
    \/ MainRamDone
    \/ MainNetDone
    \/ MainGpuDone
    \/ MainSummary
    \/ MainJsonFile
    \/ MainRaw

(***************************************************************************)
(* Hosts and inputs.                                                       *)
(***************************************************************************)
\* values of --cpu-seconds: 0, 0.1 and the default 3.0
Durations == {Rat(0, 1), Rat(1, 10), Rat(3, 1)}
\* durations bench_cpu is called with on its own
CpuDurations == {Rat(0, 1), Rat(1, 10)}

CoreCounts == {1, 2, MaxCores}

\* a host: whether psutil and numpy import (lines 22-23), what
\* psutil.cpu_count(logical=True) and os.cpu_count() report (None when
\* undetermined), and psutil.virtual_memory().total (None when psutil is
\* missing or the call raises); half of the memory is available and every
\* physical core has two logical ones
Host(psutil, np, ps_cpu_count, os_cpu_count, total_mem) ==
    [psutil |-> psutil, np |-> np, ps_cpu_count |-> ps_cpu_count,
     os_cpu_count |-> os_cpu_count, total_mem |-> total_mem,
     avail_mem |-> IF total_mem = None THEN None
                   ELSE Some(Mem(Val(total_mem).mib \div 2, 0)),
     phys_cores |-> IF ps_cpu_count = None THEN None
                    ELSE Some(Max2(1, Val(ps_cpu_count) \div 2))]

TwoCoreHost == Host(TRUE, TRUE, Some(2), Some(2), Some(Mem(8192, 0)))

CpuHosts ==
    {Host(TRUE, TRUE, Some(c), Some(c), Some(Mem(8192, 0))) : c \in CoreCounts}
    \cup {Host(TRUE, TRUE, None, Some(2), Some(Mem(8192, 0))),
          Host(TRUE, TRUE, None, None, Some(Mem(8192, 0))),
          Host(FALSE, TRUE, None, None, None)}
    \cup {Host(FALSE, TRUE, None, Some(c), None) : c \in CoreCounts}

\* explicit worker counts a caller of bench_cpu may pass
ExplicitProcs == {0, 1, 3}

(***************************************************************************)
(* SpecNet: bench_network called on its own.                               *)
(***************************************************************************)
\* values of --net-timeout, the default 60 among them
NetTimeouts == {1, 10, 60, 120}

(***************************************************************************)
(* SpecCpu: bench_cpu called on its own, with or without a worker count.   *)
(***************************************************************************)
\* frames of the functions that are not running
NoArgs == [json_path |-> None]

InitCpu ==
    /\ host \in CpuHosts
    /\ \E d \in CpuDurations :
         \/ cpuF = CpuEntry(d, None)
         \/ /\ host = TwoCoreHost
            /\ \E m \in ExplicitProcs : cpuF = CpuEntry(d, Some(m))
    /\ workers = NoWorkers
    /\ args = NoArgs
    /\ mainF = Idle
    /\ ramF = Idle
    /\ netF = Idle
    /\ gpuF = Idle
    /\ stdout = << >>
    /\ stderr = << >>
    /\ fmtF = Idle
    /\ jsonF = Idle

NextCpu == bench_cpu

SpecCpu == InitCpu /\ [][NextCpu]_vars

(***************************************************************************)
(* SpecRam: bench_ram called on its own, with or without a buffer size.    *)
(***************************************************************************)
\* psutil.virtual_memory().total of the modelled hosts: below, at and above
\* the totals whose tenth is 64 MiB (640 MiB) and 256 MiB (2560 MiB)
TotalMems ==
    {Mem(128, 0), Mem(639, 1048575), Mem(640, 0), Mem(640, 10),
     Mem(1024, 0), Mem(1024, 7), Mem(2559, 1048575), Mem(2560, 0),
     Mem(8192, 0), Mem(16384, 0)}

RamHosts ==
    {Host(TRUE, np, Some(2), Some(2), Some(t)) :
        np \in BOOLEAN, t \in TotalMems}
    \cup {Host(ps, np, None, Some(2), None) : ps \in BOOLEAN, np \in BOOLEAN}

\* explicit buffer sizes a caller of bench_ram may pass
ExplicitSizes == {-1, 0, 1, MiB}

InitRam ==
    /\ host \in RamHosts
    /\ \/ ramF = RamEntry(None)
       \/ /\ host.total_mem = Some(Mem(8192, 0))
          /\ \E b \in ExplicitSizes : ramF = RamEntry(Some(b))
    /\ cpuF = Idle
    /\ workers = NoWorkers
    /\ args = NoArgs
    /\ mainF = Idle
    /\ netF = Idle
    /\ gpuF = Idle
    /\ stdout = << >>
    /\ stderr = << >>
    /\ fmtF = Idle
    /\ jsonF = Idle

NextRam == bench_ram

SpecRam == InitRam /\ [][NextRam]_vars

(***************************************************************************)
(* Spec: a run of main.                                                    *)
(***************************************************************************)
DefaultArgs ==
    [json_path |-> None, cpu_seconds |-> Rat(3, 1), net_timeout |-> 60,
     ram_bytes |-> None, scale_down |-> Rat(69, 100),
     perf_retain |-> Rat(27, 100)]

\* values of --ram-bytes
RamBytesTexts ==
    {<<"1", "M">>, <<"1">>, <<"-", "1">>, <<"a", "b", "c">>,
     <<" ", "1", ".", "5", "k">>}

\* command lines: the defaults, and each option set in turn
CommandLines ==
    {DefaultArgs}
    \cup {[DefaultArgs EXCEPT !.cpu_seconds = d] : d \in Durations}
    \cup {[DefaultArgs EXCEPT !.ram_bytes = Some(t)] : t \in RamBytesTexts}
    \cup {[DefaultArgs EXCEPT !.net_timeout = t] : t \in NetTimeouts}
    \cup {[DefaultArgs EXCEPT !.scale_down = x] :
            x \in {Rat(1, 2), Rat(9, 10)}}
    \cup {[DefaultArgs EXCEPT !.perf_retain = x] :
            x \in {Rat(1, 10), Rat(1, 2)}}
    \cup {[DefaultArgs EXCEPT !.json_path = Some("out.json")],
          [DefaultArgs EXCEPT !.cpu_seconds = Rat(1, 10),
                              !.ram_bytes = Some(<<"1", "M">>)]}

MainHosts ==
    {Host(TRUE, TRUE, Some(2), Some(2), Some(Mem(8192, 0))),
     Host(FALSE, FALSE, None, None, None)}

Init ==
    /\ host \in MainHosts
    /\ args \in CommandLines
    /\ mainF = MainEntry
    /\ cpuF = Idle
    /\ workers = NoWorkers
    /\ ramF = Idle
    /\ netF = Idle
    /\ gpuF = Idle
    /\ stdout = << >>
    /\ stderr = << >>
    /\ fmtF = Idle
    /\ jsonF = Idle

Next ==
    \/ main
    \/ bench_cpu
    \/ bench_ram
    \/ bench_network
    \/ bench_gpu

Spec == Init /\ [][Next]_vars

(***************************************************************************)
(* Claims about main, checked under Spec.                                  *)
(***************************************************************************)
ReportKeys ==
    {"system", "cpu", "ram", "network", "gpu", "theoretical_baseline",
     "scaled_configuration", "memory_x_multiple"}

\* C1 as stated: whatever the command line and the outcome of each probe,
\* the run is never aborted by a probe, and it reaches the output stage
\* with a report holding all eight keys.
C1_AsStated ==
    /\ mainF.pc # "aborted"
    /\ mainF.pc \in {"summary", "json_file", "raw", "done"} =>
           (mainF.results # None /\ DOMAIN Val(mainF.results) = ReportKeys)


InitNet ==
    /\ host = TwoCoreHost
    /\ \E t \in NetTimeouts : netF = NetEntry(t)
    /\ cpuF = Idle
    /\ workers = NoWorkers
    /\ args = NoArgs
    /\ mainF = Idle
    /\ ramF = Idle
    /\ gpuF = Idle
    /\ stdout = << >>
    /\ stderr = << >>
    /\ fmtF = Idle
    /\ jsonF = Idle

NextNet == bench_network

SpecNet == InitNet /\ [][NextNet]_vars

(***************************************************************************)
(* Claims about bench_network, checked under SpecNet.                      *)
(***************************************************************************)
NumericKeys ==
    {"download_bits_per_sec", "upload_bits_per_sec", "ping_ms",
     "download_human", "upload_human"}

\* C9: a result of bench_network is the numeric variant (no 'error' key) or
\* the error variant (only the 'error' key): a step that raises leaves no
\* figure measured before it in the result, and a failed import gives
\* exactly {error: "speedtest module not available"}.
C9_NetworkVariants ==
    netF.pc = "returned" =>
        LET ret == Val(netF.ret)
        IN  /\ DOMAIN ret = {"error"} \/ DOMAIN ret = NumericKeys
            /\ netF.failed_at # "" <=> DOMAIN ret = {"error"}
            /\ netF.failed_at = "import" =>
                   ret = [error |-> "speedtest module not available"]
            /\ netF.failed_at = "" =>
                   /\ ret.download_bits_per_sec = Val(netF.download_bps)
                   /\ ret.upload_bits_per_sec = Val(netF.upload_bps)

\* C9 witness: the upload raised after the download had been measured, and
\* the result holds the error alone
C9_Witness ==
    /\ netF.pc = "returned"
    /\ netF.failed_at = "upload"
    /\ netF.download_bps # None
    /\ DOMAIN Val(netF.ret) = {"error"}

\* C10 as stated: when the service does not answer, the probe gives up
\* within timeout_s seconds and returns the error variant.
C10_AsStated ==
    (netF.pc = "returned" /\ netF.unanswered) =>
        /\ DOMAIN Val(netF.ret) = {"error"}
        /\ netF.waited <= netF.timeout_s

(***************************************************************************)
(* Claims about the buffer size of bench_ram, checked under SpecRam.       *)
(***************************************************************************)
\* bench_ram has chosen its buffer size (line 179 is passed)
SizeChosen == ramF.pc \notin {"idle", "size"}

\* total RAM as bench_ram sees it: None when psutil is missing or
\* virtual_memory() raises
SeenTotal == IF host.psutil THEN host.total_mem ELSE None

\* total.mib minus the whole MiB of 10 * size
MiBGap(total, size) == total.mib - 10 * (size \div 1048576)

\* total - 10 * size in bytes, for a total within 10 MiB of 10 * size
TotalMinusTenTimes(total, size) ==
    MiBGap(total, size) * 1048576 + total.rem - 10 * (size % 1048576)

\* size <= total / 10, for a size in [64 MiB, 256 MiB]
AtMostTenth(total, size) ==
    IF total.mib >= 2560 THEN TRUE
    ELSE IF total.mib < 640 THEN FALSE
    ELSE \/ MiBGap(total, size) > 10
         \/ /\ MiBGap(total, size) >= 0
            /\ TotalMinusTenTimes(total, size) >= 0

\* size >= floor(total / 10), for a size in [64 MiB, 256 MiB]
AtLeastTenth(total, size) ==
    IF total.mib >= 2560 THEN size = 268435456
    ELSE IF total.mib < 640 THEN TRUE
    ELSE \/ MiBGap(total, size) < 0
         \/ /\ MiBGap(total, size) <= 10
            /\ TotalMinusTenTimes(total, size) <= 9

\* size is the whole number of bytes in a tenth of total, clamped into
\* [64 MiB, 256 MiB]
IsClampedTenth(total, size) ==
    /\ size >= 67108864
    /\ size <= 268435456
    /\ size > 67108864 => AtMostTenth(total, size)
    /\ size < 268435456 => AtLeastTenth(total, size)

\* C2 as stated: with no explicit size and total RAM unknown, the buffer
\* size is 256 MiB.
C2_AsStated ==
    (SizeChosen /\ ramF.arg_target_bytes = None /\ SeenTotal = None) =>
        Val(ramF.target_bytes) = 268435456

\* C3: with no explicit size the buffer size lies in [64 MiB, 256 MiB] for
\* every total RAM, known or not, and for a known total it is 10% of it
\* clamped into [64 MiB, 256 MiB]; the result reports that size.
C3_AutoSizeClamped ==
    /\ (SizeChosen /\ ramF.arg_target_bytes = None) =>
           /\ Val(ramF.target_bytes) >= 67108864
           /\ Val(ramF.target_bytes) <= 268435456
           /\ SeenTotal # None =>
                  IsClampedTenth(Val(SeenTotal), Val(ramF.target_bytes))
    /\ (ramF.pc = "returned" /\ ramF.arg_target_bytes = None) =>
           Val(ramF.ret).buffer_size_bytes = Val(ramF.target_bytes)

\* C3 witness: a result on a 1 GiB + 7 bytes host, whose tenth lies strictly
\* between the two clamps
C3_Witness ==
    /\ ramF.pc = "returned"
    /\ ramF.arg_target_bytes = None
    /\ SeenTotal = Some(Mem(1024, 7))
    /\ Val(ramF.ret).buffer_size_bytes = 107374183

\* C4 as stated: for every known total RAM the automatic buffer size lies in
\* [64 MiB, min(256 MiB, 10% of total RAM)].
C4_AsStated ==
    (SizeChosen /\ ramF.arg_target_bytes = None /\ SeenTotal # None) =>
        /\ Val(ramF.target_bytes) >= 67108864
        /\ Val(ramF.target_bytes) <= 268435456
        /\ AtMostTenth(Val(SeenTotal), Val(ramF.target_bytes))

\* C4 amended: for every known total RAM the automatic buffer size lies in
\* [64 MiB, 256 MiB] and exceeds 10% of total RAM only when that share is
\* below 64 MiB, in which case it is exactly 64 MiB.
C4_NeverAboveShare ==
    (SizeChosen /\ ramF.arg_target_bytes = None /\ SeenTotal # None) =>
        /\ Val(ramF.target_bytes) >= 67108864
        /\ Val(ramF.target_bytes) <= 268435456
        /\ \/ Val(ramF.target_bytes) = 67108864
           \/ AtMostTenth(Val(SeenTotal), Val(ramF.target_bytes))

\* C4 witness: on a 128 MiB host the buffer is 64 MiB, five times the
\* 10% share
C4_Witness ==
    /\ ramF.pc = "returned"
    /\ ramF.arg_target_bytes = None
    /\ SeenTotal = Some(Mem(128, 0))
    /\ Val(ramF.ret).buffer_size_bytes = 67108864

(***************************************************************************)
(* Claims about bench_cpu, checked under SpecCpu.                          *)
(***************************************************************************)
\* the logical core count bench_cpu is given: psutil's when psutil is
\* installed, the os module's otherwise (None when undetermined)
ReportedCores == IF host.psutil THEN host.ps_cpu_count ELSE host.os_cpu_count

\* bench_cpu has settled its worker count (line 58 is passed)
ProcsSettled == cpuF.pc \in {"pool", "collect", "returned"}

\* C5 as stated: with no worker count passed, bench_cpu uses
\* min(logical core count, 8) workers when the count is known and 8 workers
\* when it is unknown.
C5_AsStated ==
    (ProcsSettled /\ cpuF.arg_max_procs = None) =>
        Val(cpuF.max_procs) = IF ReportedCores = None THEN 8
                              ELSE Min2(Val(ReportedCores), 8)

\* C5 amended: with no worker count passed, bench_cpu uses
\* min(reported logical core count, 8) workers when the count is known and
\* 1 worker when it is unknown; the result reports that number.
C5_DefaultWorkers ==
    LET expected == IF ReportedCores = None THEN 1
                    ELSE Min2(Val(ReportedCores), 8)
    IN  /\ (ProcsSettled /\ cpuF.arg_max_procs = None) =>
               Val(cpuF.max_procs) = expected
        /\ (cpuF.pc = "returned" /\ cpuF.arg_max_procs = None) =>
               Val(cpuF.ret).processes = expected

\* C5 witness: bench_cpu returned on a host whose core count is unknown,
\* having used one worker
C5_Witness ==
    /\ cpuF.pc = "returned"
    /\ cpuF.arg_max_procs = None
    /\ ReportedCores = None
    /\ Val(cpuF.ret).processes = 1

\* C6 as stated: in every CpuResult, for every max_procs argument (None or
\* explicit), processes is >= 1, <= 8 and <= the logical core count.
C6_AsStated ==
    cpuF.pc = "returned" =>
        /\ Val(cpuF.ret).processes >= 1
        /\ Val(cpuF.ret).processes <= 8
        /\ ReportedCores # None => Val(cpuF.ret).processes <= Val(ReportedCores)

\* C6 amended: processes is >= 1 in every CpuResult; when no worker count is
\* passed it is also <= 8 and <= the reported logical core count (when that
\* is known); an explicit max_procs is used as given, whatever the cap and
\* the core count.
C6_ProcessBounds ==
    /\ (ProcsSettled /\ cpuF.arg_max_procs = None) =>
           /\ Val(cpuF.max_procs) >= 1
           /\ Val(cpuF.max_procs) <= 8
           /\ ReportedCores # None => Val(cpuF.max_procs) <= Val(ReportedCores)
    /\ cpuF.pc = "returned" =>
           /\ Val(cpuF.ret).processes >= 1
           /\ Val(cpuF.ret).processes = Val(cpuF.max_procs)
           /\ cpuF.arg_max_procs # None =>
                  Val(cpuF.ret).processes = Val(cpuF.arg_max_procs)

\* C6 witness: a result for an explicit worker count above the core count
C6_Witness ==
    /\ cpuF.pc = "returned"
    /\ cpuF.arg_max_procs = Some(3)
    /\ ReportedCores = Some(2)
    /\ Val(cpuF.ret).processes = 3

\* C7: when the pool cannot be created or a worker fails, bench_cpu raises
\* and returns no result; a returned result is summed over exactly the
\* 'processes' workers it reports, none of which failed.
C7_FailureSurfaced ==
    /\ cpuF.pc = "raised" => cpuF.ret = None /\ cpuF.exc # ""
    /\ (\E w \in DOMAIN workers : workers[w].st \in {"failed", "terminated"})
           => cpuF.pc # "returned" /\ cpuF.ret = None
    /\ cpuF.pc = "returned" =>
           /\ Len(workers) = Val(cpuF.ret).processes
           /\ cpuF.next = Val(cpuF.ret).processes + 1
           /\ \A w \in DOMAIN workers : workers[w].st = "collected"

\* C7 witness: a worker failed after another's bytes had been summed, and
\* bench_cpu raised
C7_Witness ==
    /\ cpuF.pc = "raised"
    /\ cpuF.exc = "WorkerError"
    /\ cpuF.multi_bytes > 0
    /\ cpuF.ret = None

\* C8: the multi-process throughput is the sum of the bytes of all W workers
\* (each its iteration count times 1024) divided by the duration, not by W,
\* and does not use the single-thread figure.
C8_AggregateThroughput ==
    /\ [](cpuF.pc = "collect" =>
            \A w \in DOMAIN workers :
                workers[w].st = "done" =>
                    workers[w].bytes = workers[w].count * 1024)
    /\ [][(cpuF.pc = "collect" /\ cpuF'.pc = "collect"
             /\ cpuF'.next # cpuF.next) =>
            /\ cpuF'.next = cpuF.next + 1
            /\ workers[cpuF.next].st = "done"
            /\ cpuF'.multi_bytes =
                   cpuF.multi_bytes + workers[cpuF.next].count * 1024]_vars
    /\ [](cpuF.pc = "returned" =>
            /\ cpuF.next = Val(cpuF.max_procs) + 1
            /\ RatMul(Val(cpuF.ret).multi_process_bytes_per_sec,
                      cpuF.duration_s) = RatOfInt(cpuF.multi_bytes))

\* C8 witness: two workers of one iteration each over 0.1 s: 2048 bytes,
\* 20480 bytes per second
C8_Witness ==
    /\ cpuF.pc = "returned"
    /\ Val(cpuF.ret).processes = 2
    /\ cpuF.multi_bytes = 2048
    /\ Val(cpuF.ret).multi_process_bytes_per_sec = [n |-> 20480, d |-> 1]

(***************************************************************************)
(* Claims about bench_gpu, checked under Spec.                             *)
(***************************************************************************)
GpuReturned == gpuF.pc = "returned"
GpuRet == Val(gpuF.ret)
MeasuredKeys == {"device", "gemm_gflops", "gemm_time_s"}

\* C11 as stated: every result of bench_gpu with available = true holds
\* device, gemm_gflops and gemm_time_s, also when an exception was raised
\* after the device was detected.
C11_AsStated ==
    (GpuReturned /\ GpuRet.available) => MeasuredKeys \subseteq DOMAIN GpuRet

\* the lines of the printed summary
SummaryLine(kind) == {i \in 1..Len(stdout) : stdout[i].kind = kind}

\* C12 as stated: the GPU line of the summary shows a GFLOP/s figure and an
\* elapsed time only when bench_gpu measured gemm_gflops and gemm_time_s.
C12_AsStated ==
    \A i \in SummaryLine("GPU") :
        "gflops_tenths" \in DOMAIN stdout[i] =>
            {"gemm_gflops", "gemm_time_s"}
                \subseteq DOMAIN Val(mainF.results).gpu

\* C13 as stated: bench_gpu never raises, and every exception raised inside
\* it is recorded in the 'error' field of its result.
C13_AsStated ==
    /\ gpuF.pc # "raised"
    /\ (GpuReturned /\ gpuF.raised # << >>) => "error" \in DOMAIN GpuRet

\* C14: a result with available = false has no device, gemm_gflops or
\* gemm_time_s; without the enumeration tool on the PATH it has no
\* nvidia_smi either; when the tool ran, nvidia_smi is its stripped output
\* and available is false.
C14_UnavailableShape ==
    GpuReturned =>
        /\ ~GpuRet.available => DOMAIN GpuRet \cap MeasuredKeys = {}
        /\ gpuF.smi = "absent" =>
               (~GpuRet.available /\ "nvidia_smi" \notin DOMAIN GpuRet)
        /\ gpuF.smi = "ran" =>
               /\ ~GpuRet.available
               /\ "nvidia_smi" \in DOMAIN GpuRet
               /\ GpuRet.nvidia_smi \in {Strip(out) : out \in SmiOutputs}
               /\ GpuRet.nvidia_smi # << >>
               /\ ~IsSpace(Head(GpuRet.nvidia_smi))
               /\ ~IsSpace(GpuRet.nvidia_smi[Len(GpuRet.nvidia_smi)])

\* C14 witness: the tool ran on a host without a usable compute runtime and
\* its output, without the trailing newline, is in the result.
C14_Witness ==
    /\ GpuReturned
    /\ gpuF.smi = "ran"
    /\ ~GpuRet.available
    /\ GpuRet.nvidia_smi = <<"T", "4", ",", " ", "1", "5", "G">>

(***************************************************************************)
(* SpecScale: the scaled configuration model of main, for every pair of    *)
(* --scale-down and --perf-retain values.                                  *)
(***************************************************************************)
\* values of --scale-down: below, at, inside and above [0.67, 0.71]; 11/16
\* puts 72 * (1 - x) halfway between 22 and 23
ScaleDownInputs ==
    {Rat(0, 1), Rat(1, 2), Rat(67, 100), Rat(11, 16), Rat(69, 100),
     Rat(71, 100), Rat(9, 10)}

\* values of --perf-retain: below, at, inside and above [0.25, 0.30]
PerfRetainInputs ==
    {Rat(1, 10), Rat(1, 4), Rat(27, 100), Rat(3, 10), Rat(1, 2), Rat(1, 1)}

InitScale ==
    /\ host = TwoCoreHost
    /\ args \in {[DefaultArgs EXCEPT !.scale_down = x, !.perf_retain = y] :
                   x \in ScaleDownInputs, y \in PerfRetainInputs}
    /\ mainF = MainEntry
    /\ cpuF = Idle
    /\ workers = NoWorkers
    /\ ramF = Idle
    /\ netF = Idle
    /\ gpuF = Idle
    /\ stdout = << >>
    /\ stderr = << >>
    /\ fmtF = Idle
    /\ jsonF = Idle

NextScale ==
    \/ MainParse
    \/ MainScale

SpecScale == InitScale /\ [][NextScale]_vars

(***************************************************************************)
(* Claims about the scaled configuration, checked under SpecScale.         *)
(***************************************************************************)
Scaled == mainF.scaled # None
Sc == Val(mainF.scaled)
HwFactor == Sc.notes.hardware_scale_down
PerfFactor == Sc.notes.performance_loss

\* x moved to the nearest point of [lo, hi]
Nearest(x, lo, hi) == IF RatLt(x, lo) THEN lo ELSE IF RatLt(hi, x) THEN hi ELSE x

CountFields == {"gpus", "cpus", "cpu_cores"}
HardwareFields ==
    {"fast_memory_tb", "gpu_memory_tb", "cpu_memory_tb",
     "dual_link_bandwidth_tbps", "gpu_mem_bandwidth_tbps",
     "cpu_mem_bandwidth_tbps"}
PerformanceFields ==
    {"fp4_tensor_pf", "fp8_pf", "int8_pf", "fp16_pf", "tf32_pf", "fp32_pf",
     "fp64_tf"}

\* sc[k] is base[k] reduced by the fraction f of base[k]
ReducedBy(k, f) ==
    RatSub(theoretical_baseline[k], Sc[k]) = RatMul(theoretical_baseline[k], f)

\* C15: the factors of the scaled profile lie in [0.67, 0.71] and
\* [0.25, 0.30], each is the command-line value moved to the nearest bound
\* of its interval, and the notes hold exactly the two factors the profile
\* was computed with.
C15_FactorsClamped ==
    Scaled =>
        /\ RatLe(Rat(67, 100), HwFactor) /\ RatLe(HwFactor, Rat(71, 100))
        /\ RatLe(Rat(25, 100), PerfFactor) /\ RatLe(PerfFactor, Rat(30, 100))
        /\ HwFactor = Nearest(args.scale_down, Rat(67, 100), Rat(71, 100))
        /\ PerfFactor = Nearest(args.perf_retain, Rat(25, 100), Rat(30, 100))
        /\ DOMAIN Sc.notes = {"hardware_scale_down", "performance_loss"}
        /\ \A k \in HardwareFields : ReducedBy(k, HwFactor)
        /\ \A k \in PerformanceFields : ReducedBy(k, PerfFactor)

\* C15 witness: --scale-down 0.9 was applied as 0.71 and --perf-retain 0.1
\* as 0.25.
C15_Witness ==
    /\ Scaled
    /\ args.scale_down = Rat(9, 10) /\ HwFactor = Rat(71, 100)
    /\ args.perf_retain = Rat(1, 10) /\ PerfFactor = Rat(1, 4)

\* c is x rounded to the nearest integer, ties to the even one
IsRounded(c, x) ==
    LET twice == 2 * Abs(c * x.d - x.n)
    IN  twice < x.d \/ (twice = x.d /\ c % 2 = 0)

\* C16: each scaled count is max(1, round(base * (1 - hardwareScale))), an
\* integer >= 1; with hardwareScale = 0.69 the 72 accelerators become 22
\* and the 36 processors 11.
C16_ScaledCounts ==
    Scaled =>
        /\ \A k \in CountFields :
             LET b == theoretical_baseline[k]
                 x == RatMul(RatOfInt(b), RatSub(RatOfInt(1), HwFactor))
             IN  /\ Sc[k] \in Nat
                 /\ Sc[k] >= 1
                 /\ \E c \in 0..b : IsRounded(c, x) /\ Sc[k] = Max2(1, c)
        /\ HwFactor = Rat(69, 100) => (Sc.gpus = 22 /\ Sc.cpus = 11)

\* C16 witness: the default factor 0.69 gave 22 accelerators, 11 processors
\* and 1085 cores.
C16_Witness ==
    /\ Scaled
    /\ HwFactor = Rat(69, 100)
    /\ Sc.gpus = 22 /\ Sc.cpus = 11 /\ Sc.cpu_cores = 1085

\* the scaled profile for other command-line factors
ScaledFor(x, y) ==
    scaled_config(theoretical_baseline,
                  clamp(x, Rat(67, 100), Rat(71, 100)),
                  clamp(y, Rat(25, 100), Rat(30, 100)))

OneM == <<"1", "M">>

\* C18: an explicit size is used as given: the result of bench_ram reports
\* it as buffer_size_bytes on the numpy and on the fallback path, and
\* --ram-bytes 1M gives buffer_size_bytes = 1048576.
C18_ExplicitSizeVerbatim ==
    /\ (ramF.pc \notin {"idle", "size"} /\ ramF.arg_target_bytes # None) =>
           ramF.target_bytes = ramF.arg_target_bytes
    /\ (ramF.pc = "returned" /\ ramF.arg_target_bytes # None) =>
           /\ Val(ramF.ret).buffer_size_bytes = Val(ramF.arg_target_bytes)
           /\ Val(ramF.ret).implementation \in {"numpy", "python"}
    /\ (mainF.ram # None /\ args.ram_bytes = Some(OneM)) =>
           Val(mainF.ram).buffer_size_bytes = 1048576

\* C18 witness: --ram-bytes 1M ran on the fallback path of a host with
\* numpy, after the numpy path failed, and reported 1048576 bytes.
C18_Witness ==
    /\ args.ram_bytes = Some(OneM)
    /\ host.np
    /\ mainF.ram # None
    /\ Val(mainF.ram).implementation = "python"
    /\ Val(mainF.ram).buffer_size_bytes = 1048576

\* the warnings about --ram-bytes on standard error
RamBytesWarnings ==
    {i \in 1..Len(stderr) : stderr[i].kind = "invalid_ram_bytes"}

\* C19 as stated: no --ram-bytes value aborts the run; a value that is a
\* plain integer or a number with a K, M or G suffix and is a usable size
\* becomes the override; every other value is warned about on standard
\* error and leaves the memory probe with its automatic size.
C19_AsStated ==
    (args.ram_bytes # None /\ mainF.pc # "parse") =>
        LET parsed == ParseRamBytes(Val(args.ram_bytes))
            usable == parsed # None /\ Val(parsed) >= 0
        IN  /\ usable => (mainF.ram_bytes_override = parsed
                          /\ RamBytesWarnings = {})
            /\ ~usable => (mainF.ram_bytes_override = None
                           /\ RamBytesWarnings # {})
            /\ ~(ramF.pc = "raised" /\ ramF.exc = "ValueError")

\* C20: memory_x_multiple times 1073741824 is the copy figure of the memory
\* result, and it is None exactly when that result has no
\* copy_bytes_per_sec.
C20_MemoryMultiple ==
    mainF.results # None =>
        LET r == Val(mainF.results)
            has == "copy_bytes_per_sec" \in DOMAIN r.ram
        IN  /\ (r.memory_x_multiple = None) <=> ~has
            /\ has => RatMul(Val(r.memory_x_multiple), RatOfInt(1073741824))
                          = r.ram.copy_bytes_per_sec

\* C20 witness: a 1 MiB buffer copied in half a second, 2097152 bytes per
\* second, is reported as 1/512.
C20_Witness ==
    /\ mainF.results # None
    /\ Val(mainF.results).ram.copy_bytes_per_sec = RatOfInt(2097152)
    /\ Val(mainF.results).memory_x_multiple = Some(Rat(1, 512))

(***************************************************************************)
(* SpecFormat: format_bytes_per_sec called on its own.                     *)
(***************************************************************************)
\* rates below 2^31 bytes per second: zero, fractions, and the values
\* around each power of 1024
PlainRates ==
    {Rat(0, 1), Rat(1, 2), Rat(1, 1), Rat(1023, 1), Rat(255999, 250),
     Rat(1024, 1), Rat(1025, 1), Rat(1536, 1), Rat(1048575, 1),
     Rat(1048576, 1), Rat(1572864, 1), Rat(1072693248, 1),
     Rat(1073741824, 1)}

\* mantissas of the larger rates
Mantissas ==
    {Rat(1, 1), Rat(3, 2), Rat(2, 1), Rat(10, 1), Rat(512, 1), Rat(1000, 1),
     Rat(1023, 1), Rat(2047, 2), Rat(255999, 250)}

\* rates from 1024 bytes per second to beyond 1024 TB/s
LargeRates ==
    {[n |-> m.n, d |-> m.d, e |-> e] : m \in Mantissas, e \in {1, 2, 3, 4}}
    \cup {[n |-> m.n, d |-> m.d, e |-> 5] :
            m \in {Rat(1, 1), Rat(3, 2), Rat(1023, 1)}}

FormatEntry(bps) == [pc |-> "call", bps |-> bps]

InitFormat ==
    /\ host = TwoCoreHost
    /\ args = NoArgs
    /\ fmtF \in {FormatEntry(bps) : bps \in PlainRates \cup LargeRates}
    /\ jsonF = Idle
    /\ mainF = Idle
    /\ cpuF = Idle
    /\ workers = NoWorkers
    /\ ramF = Idle
    /\ netF = Idle
    /\ gpuF = Idle
    /\ stdout = << >>
    /\ stderr = << >>

\* lines 26-32: the call and its return value
FormatCall ==
    /\ fmtF.pc = "call"
    /\ fmtF' = [pc |-> "returned", bps |-> fmtF.bps,
                ret |-> format_bytes_per_sec(fmtF.bps)]
    /\ UNCHANGED <<host, args, jsonF, mainF, cpuF, workers, ramF, netF, gpuF,
                   stdout, stderr>>

NextFormat == FormatCall

SpecFormat == InitFormat /\ [][NextFormat]_vars

(***************************************************************************)
(* Claims about format_bytes_per_sec, checked under SpecFormat.            *)
(***************************************************************************)
\* the 0-based position of a unit in the ladder
UnitIndex(u) == (CHOOSE i \in 1..Len(units) : units[i] = u) - 1

\* rate >= 1024^j for a rate of SpecFormat, 1 <= j <= 4
AtLeastPow(bps, j) ==
    IF Exponent(bps) >= j THEN TRUE
    ELSE IF Exponent(bps) > 0 \/ j > 3 THEN FALSE
    ELSE RatLe(RatOfInt(Pow1024(j)), bps)

\* rate / 1024^j, for a j that leaves less than 2^21
DividedBy(bps, j) ==
    LET m == [n |-> bps.n, d |-> bps.d]
    IN  IF Exponent(bps) >= j
        THEN RatMul(m, RatOfInt(Pow1024(Exponent(bps) - j)))
        ELSE RatDiv(m, RatOfInt(Pow1024(j - Exponent(bps))))

\* h hundredths is x printed with two decimals: x is within half a
\* hundredth of h / 100
IsTwoDecimals(h, x) ==
    /\ RatLe(Rat(2 * h - 1, 200), x)
    /\ RatLe(x, Rat(2 * h + 1, 200))

\* C22: the unit index is min(4, number of divisions by 1024 needed to get
\* below 1024), the printed mantissa is rate / 1024^index to two decimals,
\* the mantissa is below 1024 unless the unit is TB/s, and the unit is one
\* of the five.
C22_UnitLadder ==
    fmtF.pc = "returned" =>
        /\ \E i \in 1..Len(units) : units[i] = fmtF.ret.unit
        /\ LET idx == UnitIndex(fmtF.ret.unit)
               mantissa == DividedBy(fmtF.bps, idx)
           IN  /\ idx \in 0..4
               /\ idx > 0 => AtLeastPow(fmtF.bps, idx)
               /\ idx < 4 => ~AtLeastPow(fmtF.bps, idx + 1)
               /\ idx < 4 => RatLt(mantissa, RatOfInt(1024))
               /\ IsTwoDecimals(fmtF.ret.hundredths, mantissa)

\* C22 witness: 1023 * 1024^5 bytes per second is printed in TB/s, the
\* last unit, with the mantissa 1047552.00.
C22_Witness ==
    /\ fmtF.pc = "returned"
    /\ fmtF.bps = [n |-> 1023, d |-> 1, e |-> 5]
    /\ fmtF.ret = [hundredths |-> 104755200, unit |-> "TB/s"]

(***************************************************************************)
(* Claims about the timed loops and the path label of bench_ram, checked   *)
(* under SpecRam.                                                          *)
(***************************************************************************)
Figures == {"copy", "write", "read"}

\* C24 as stated: on both paths a zero measured time never raises a
\* division by zero, and every throughput of a non-empty buffer is a
\* positive number.
C24_AsStated ==
    /\ ramF.numpy_exc # "ZeroDivisionError"
    /\ \A k \in Figures :
         (ramF.pc # "idle" /\ ramF[k] # None /\ Val(ramF.target_bytes) > 0)
             => Val(ramF[k]).n > 0

\* C27: the result is labelled numpy only when numpy is installed and the
\* vectorized path ran to its end, and python when numpy is missing or the
\* vectorized path raised; the three figures of the result are the ones
\* measured by the labelled path.
C27_LabelNamesPath ==
    ramF.pc = "returned" =>
        LET res == Val(ramF.ret)
            fell == ~host.np \/ ramF.numpy_exc # ""
        IN  /\ res.implementation \in {"numpy", "python"}
            /\ res.implementation = "numpy" <=> ~fell
            /\ res.implementation = "python" <=> fell
            /\ \A k \in Figures : ramF.by[k] = res.implementation
            /\ res.copy_bytes_per_sec = Val(ramF.copy)
            /\ res.write_bytes_per_sec = Val(ramF.write)
            /\ res.read_bytes_per_sec = Val(ramF.read)

\* C27 witness: the vectorized path raised after it had measured the copy
\* and write figures, and the result is labelled python.
C27_Witness ==
    /\ ramF.pc = "returned"
    /\ host.np
    /\ ramF.numpy_exc = "ZeroDivisionError"
    /\ Val(ramF.ret).implementation = "python"
    /\ ramF.by = [copy |-> "python", write |-> "python", read |-> "python"]

(***************************************************************************)
(* Claims about the workers of bench_cpu, checked under SpecCpu.           *)
(***************************************************************************)
\* a step of one pool task
RanAlone(w) ==
    /\ workers[w].st = "pending"
    /\ workers'[w].st \in {"done", "failed"}

\* C25: the tasks exist only after the single-thread phase; a step of a task
\* changes that task's slot and nothing else, and its byte count is its own
\* iteration count times the block size; bench_cpu is over only when no
\* task is left running, and it returns only after collecting all W
\* results.
C25_WorkersIndependent ==
    /\ [](workers # NoWorkers =>
            /\ cpuF.pc \in {"collect", "returned", "raised"}
            /\ cpuF.single_bps # None
            /\ Len(workers) = Val(cpuF.max_procs))
    /\ [][\A w \in DOMAIN workers :
            (DOMAIN workers' = DOMAIN workers /\ RanAlone(w)) =>
                /\ \A v \in DOMAIN workers \ {w} : workers'[v] = workers[v]
                /\ cpuF' = cpuF
                /\ workers'[w].bytes = workers'[w].count * block_size]_vars
    /\ [](cpuF.pc \in {"returned", "raised"} =>
            \A w \in DOMAIN workers : workers[w].st # "pending")
    /\ [](cpuF.pc = "returned" =>
            /\ workers # NoWorkers
            /\ \A w \in DOMAIN workers : workers[w].st = "collected")

\* C25 witness: the second of two tasks finished while the first was still
\* running.
C25_Witness ==
    /\ cpuF.pc = "collect"
    /\ Len(workers) = 2
    /\ workers[1].st = "pending"
    /\ workers[2].st = "done"
    /\ workers[2].bytes = block_size

(***************************************************************************)
(* Claims about the order of main's steps and its output, checked under    *)
(* Spec.                                                                   *)
(***************************************************************************)
SummaryKinds == {"CPU", "NETWORK", "RAM", "MEMX", "GPU"}

\* C21: once main is over, standard output is the summary, then (after an
\* empty line) RAW_JSON_BEGIN, the report as one line, and RAW_JSON_END;
\* this holds also when --json was given and the file could not be written,
\* which is reported on standard error.
C21_OutputSequence ==
    /\ mainF.pc \in {"parse", "scale", "system", "cpu", "ram", "network",
                     "gpu", "summary", "aborted"} => stdout = << >>
    /\ mainF.pc \in {"json_file", "raw"} =>
           \A i \in 1..Len(stdout) : stdout[i].kind \in SummaryKinds
    /\ mainF.pc = "done" =>
           LET n == Len(stdout)
           IN  /\ n \in {8, 9}
               /\ stdout[1].kind = "CPU"
               /\ stdout[n - 4].kind = "GPU"
               /\ \A i \in 1..(n - 4) : stdout[i].kind \in SummaryKinds
               /\ stdout[n - 3].kind = "blank"
               /\ stdout[n - 2].kind = "RAW_JSON_BEGIN"
               /\ stdout[n - 1].kind = "json"
               /\ stdout[n - 1].doc = Val(mainF.results)
               /\ stdout[n].kind = "RAW_JSON_END"
    /\ (\E i \in 1..Len(stderr) : stderr[i].kind = "json_write_failed") =>
           /\ args.json_path # None
           /\ mainF.file = None
           /\ mainF.pc \in {"raw", "done"}

\* C21 witness: --json was given, the file could not be written, and the
\* run ended with the sentinel block on standard output.
C21_Witness ==
    /\ mainF.pc = "done"
    /\ args.json_path # None
    /\ mainF.file = None
    /\ stderr = << [kind |-> "json_write_failed"] >>
    /\ stdout[Len(stdout)].kind = "RAW_JSON_END"

\* the probes that are running
Running ==
    {p \in {"cpu", "ram", "network", "gpu"} :
        CASE p = "cpu" -> cpuF.pc # "idle"
          [] p = "ram" -> ramF.pc # "idle"
          [] p = "network" -> netF.pc # "idle"
          [] p = "gpu" -> gpuF.pc # "idle"}

\* C26 as stated: the scaled configuration is computed after the four
\* probes.
C26_AsStated ==
    mainF.scaled # None =>
        (mainF.cpu # None /\ mainF.ram # None /\ mainF.network # None
         /\ Running = {})

\* C26: the scaled configuration is computed first, then the host
\* information is collected, then the CPU, memory, network and accelerator
\* probes run one at a time in that order, then the report is merged, and
\* only then is anything printed.
C26_StepOrder ==
    /\ Cardinality(Running) <= 1
    /\ mainF.system # None => mainF.scaled # None
    /\ "cpu" \in Running => (mainF.system # None /\ mainF.cpu = None)
    /\ mainF.cpu # None => mainF.system # None
    /\ "ram" \in Running => (mainF.cpu # None /\ mainF.ram = None)
    /\ mainF.ram # None => mainF.cpu # None
    /\ "network" \in Running => (mainF.ram # None /\ mainF.network = None)
    /\ mainF.network # None => mainF.ram # None
    /\ "gpu" \in Running => (mainF.network # None /\ mainF.results = None)
    /\ mainF.results # None => (mainF.network # None /\ Running = {})
    /\ stdout # << >> => mainF.results # None
    /\ mainF.file # None => stdout # << >>

\* C26 witness: the accelerator probe is running, after the three others
\* and the scaled configuration, and nothing has been printed.
C26_Witness ==
    /\ Running = {"gpu"}
    /\ gpuF.pc = "gemm"
    /\ mainF.scaled # None
    /\ mainF.network # None
    /\ stdout = << >>

(***************************************************************************)
(* json.dumps and json.loads (lines 400 and 406), at the level of JSON     *)
(* tokens.  A JSON value is a record tagged by t: null, true, false, int,  *)
(* bigint (an integer held as a Mem), float, str, or obj with the sequence *)
(* of its members in order.  A text is a sequence of tokens: punctuation,  *)
(* literals, strings with their escaped characters, numbers with the       *)
(* decimal digits of their numeral, and white space.  With the default     *)
(* allow_nan=True the encoder writes a NaN float as the literal NaN, which *)
(* the decoder reads as float("nan").                                      *)
(***************************************************************************)
\* the keys of the report and of its parts, in order of insertion
KeyOrder ==
    <<"system", "cpu", "ram", "network", "gpu", "theoretical_baseline",
      "scaled_configuration", "memory_x_multiple",
      "platform", "python", "cpu_count", "memory_total_bytes",
      "memory_available_bytes", "cpu_logical_count", "cpu_physical_cores",
      "algorithm", "duration_s", "single_thread_bytes_per_sec",
      "multi_process_bytes_per_sec", "processes", "single_thread_human",
      "multi_process_human",
      "buffer_size_bytes", "copy_bytes_per_sec", "write_bytes_per_sec",
      "read_bytes_per_sec", "copy_human", "write_human", "read_human",
      "implementation",
      "download_bits_per_sec", "upload_bits_per_sec", "ping_ms",
      "download_human", "upload_human",
      "available", "device", "gemm_gflops", "gemm_time_s", "nvidia_smi",
      "error",
      "gpus", "cpus", "dual_link_bandwidth_tbps", "fast_memory_tb",
      "gpu_memory_tb", "gpu_mem_bandwidth_tbps", "cpu_memory_tb",
      "cpu_mem_bandwidth_tbps", "cpu_cores", "fp4_tensor_pf", "fp8_pf",
      "int8_pf", "fp16_pf", "tf32_pf", "fp32_pf", "fp64_tf", "port", "notes",
      "hardware_scale_down", "performance_loss">>

\* the Python type of the value under a key
TypeOf(k) ==
    CASE k \in {"system", "cpu", "ram", "network", "gpu",
                "theoretical_baseline", "scaled_configuration", "notes"}
             -> "dict"
      [] k \in {"platform", "python", "algorithm", "implementation", "error",
                "device", "port"} -> "str"
      [] k \in {"single_thread_human", "multi_process_human", "copy_human",
                "write_human", "read_human", "download_human",
                "upload_human"} -> "human"
      [] k = "nvidia_smi" -> "chars"
      [] k \in {"cpu_count", "cpu_logical_count", "cpu_physical_cores"}
             -> "optional int"
      [] k \in {"memory_total_bytes", "memory_available_bytes"} -> "bigint"
      [] k \in {"processes", "buffer_size_bytes", "gpus", "cpus", "cpu_cores"}
             -> "int"
      [] k = "available" -> "bool"
      [] k = "memory_x_multiple" -> "optional float"
      [] OTHER -> "float"

JNull == [t |-> "null"]
JBool(b) == [t |-> IF b THEN "true" ELSE "false"]
JInt(i) == [t |-> "int", v |-> i]
JBigInt(m) == [t |-> "bigint", v |-> m]
JFloat(r) == [t |-> "float", v |-> r]
JStr(form, v) == [t |-> "str", form |-> form, v |-> v]
JObj(members) == [t |-> "obj", v |-> members]

\* the JSON value the encoder makes of a Python value: dict to object, None
\* to null, bool to true or false, int and float to numbers, str to string
RECURSIVE ToJson(_)
ToJson(d) ==
    LET keys == SelectSeq(KeyOrder, LAMBDA k : k \in DOMAIN d)
        Encode(k, v) ==
            CASE TypeOf(k) = "dict" -> ToJson(v)
              [] TypeOf(k) = "str" -> JStr("atom", v)
              [] TypeOf(k) = "human" -> JStr("human", v)
              [] TypeOf(k) = "chars" -> JStr("chars", v)
              [] TypeOf(k) = "optional int" ->
                   IF v = None THEN JNull ELSE JInt(Val(v))
              [] TypeOf(k) = "optional float" ->
                   IF v = None THEN JNull ELSE JFloat(Val(v))
              [] TypeOf(k) = "bigint" -> JBigInt(v)
              [] TypeOf(k) = "int" -> JInt(v)
              [] TypeOf(k) = "bool" -> JBool(v)
              [] TypeOf(k) = "float" -> JFloat(v)
    IN  JObj([i \in 1..Len(keys) |->
                 [k |-> keys[i], v |-> Encode(keys[i], d[keys[i]])]])

\* the decimal digits of an integer
RECURSIVE NatText(_)
NatText(n) ==
    LET digits == <<"0", "1", "2", "3", "4", "5", "6", "7", "8", "9">>
    IN  IF n < 10 THEN <<digits[n + 1]>>
        ELSE Append(NatText(n \div 10), digits[(n % 10) + 1])
IntText(i) == IF i < 0 THEN <<"-">> \o NatText(-i) ELSE NatText(i)

\* numerals: an int is its digits; an integer beyond the model's integers
\* is the digits of its two limbs; a float (repr, the shortest numeral that
\* reads back as the same double) is the digits of the numerator and of the
\* denominator of the rational that stands for it, and always has a
\* fraction part
Numeral(j) ==
    CASE j.t = "int" -> [frac |-> FALSE, limbs |-> <<IntText(j.v)>>]
      [] j.t = "bigint" ->
           [frac |-> FALSE, limbs |-> <<IntText(j.v.mib), IntText(j.v.rem)>>]
      [] j.t = "float" ->
           [frac |-> TRUE, limbs |-> <<IntText(j.v.n), IntText(j.v.d)>>]

\* the characters of a string between its quotes: quote, backslash, newline
\* and tab are escaped
RECURSIVE Escape(_)
Escape(t) ==
    IF t = << >> THEN << >>
    ELSE (CASE Head(t) = "\"" -> <<"\\", "\"">>
            [] Head(t) = "\\" -> <<"\\", "\\">>
            [] Head(t) = "\n" -> <<"\\", "n">>
            [] Head(t) = "\t" -> <<"\\", "t">>
            [] OTHER -> <<Head(t)>>) \o Escape(Tail(t))
RECURSIVE Unescape(_)
Unescape(t) ==
    IF t = << >> THEN << >>
    ELSE IF Head(t) = "\\"
    THEN <<(CASE t[2] = "n" -> "\n" [] t[2] = "t" -> "\t" [] OTHER -> t[2])>>
         \o Unescape(Tail(Tail(t)))
    ELSE <<Head(t)>> \o Unescape(Tail(t))

StringToken(form, v) ==
    [k |-> "string", form |-> form,
     v |-> IF form = "chars" THEN Escape(v) ELSE v]
White(v) == [k |-> "ws", v |-> v]

\* json.dumps(obj) and, with indent, json.dump(obj, f, indent=2)
RECURSIVE Dumps(_, _)
Dumps(j, indent) ==
    CASE j.t \in {"null", "true", "false"} -> <<[k |-> j.t]>>
      [] j.t \in {"int", "bigint", "float"} ->
           IF j.t = "float" /\ IsNaN(j.v) THEN <<[k |-> "NaN"]>>
           ELSE <<[k |-> "number", numeral |-> Numeral(j)]>>
      [] j.t = "str" -> <<StringToken(j.form, j.v)>>
      [] j.t = "obj" ->
           LET Member(i) ==
                   (IF i > 1 THEN <<[k |-> ","]>> ELSE << >>)
                   \o (IF indent THEN <<White("\n")>>
                       ELSE IF i > 1 THEN <<White(" ")>> ELSE << >>)
                   \o <<StringToken("atom", j.v[i].k), [k |-> ":"],
                        White(" ")>>
                   \o Dumps(j.v[i].v, indent)
               Members[i \in 0..Len(j.v)] ==
                   IF i = 0 THEN << >> ELSE Members[i - 1] \o Member(i)
           IN  IF j.v = << >> THEN <<[k |-> "{"], [k |-> "}"]>>
               ELSE <<[k |-> "{"]>> \o Members[Len(j.v)]
                    \o (IF indent THEN <<White("\n")>> ELSE << >>)
                    \o <<[k |-> "}"]>>

\* the value a numeral denotes
NumberValue(numeral) ==
    IF numeral.frac
    THEN JFloat([n |-> Val(ParseInt(numeral.limbs[1])),
                 d |-> Val(ParseInt(numeral.limbs[2]))])
    ELSE IF Len(numeral.limbs) = 2
    THEN JBigInt([mib |-> Val(ParseInt(numeral.limbs[1])),
                  rem |-> Val(ParseInt(numeral.limbs[2]))])
    ELSE JInt(Val(ParseInt(numeral.limbs[1])))

\* the position of the first token at or after pos that is not white space
RECURSIVE Skip(_, _)
Skip(text, pos) ==
    IF pos <= Len(text) /\ text[pos].k = "ws" THEN Skip(text, pos + 1)
    ELSE pos

\* json.loads: the value that starts at pos and the position after it
RECURSIVE ParseValue(_, _)
RECURSIVE ParseMembers(_, _, _)
ParseValue(text, pos0) ==
    LET pos == Skip(text, pos0)
        tok == text[pos]
    IN  CASE tok.k = "{" -> ParseMembers(text, pos + 1, << >>)
          [] tok.k \in {"null", "true", "false"} ->
               [j |-> [t |-> tok.k], pos |-> pos + 1]
          [] tok.k = "NaN" -> [j |-> JFloat(NaN), pos |-> pos + 1]
          [] tok.k = "number" ->
               [j |-> NumberValue(tok.numeral), pos |-> pos + 1]
          [] tok.k = "string" ->
               [j |-> JStr(tok.form, IF tok.form = "chars"
                                     THEN Unescape(tok.v) ELSE tok.v),
                pos |-> pos + 1]
ParseMembers(text, pos0, acc) ==
    LET pos == Skip(text, pos0)
        tok == text[pos]
    IN  IF tok.k = "}" THEN [j |-> JObj(acc), pos |-> pos + 1]
        ELSE IF tok.k = "," THEN ParseMembers(text, pos + 1, acc)
        ELSE LET colon == Skip(text, pos + 1)
                 val == ParseValue(text, colon + 1)
             IN  ParseMembers(text, val.pos,
                              Append(acc, [k |-> tok.v, v |-> val.j]))
Loads(text) == ParseValue(text, 1).j

(***************************************************************************)
(* SpecJson: a report assembled by main is written with json.dumps (as on  *)
(* standard output) or with indent (as in the --json file) and read back   *)
(* with json.loads.                                                        *)
(***************************************************************************)
SampleSystems == {gather_system_info(h) : h \in MainHosts}

\* bench_cpu's return for a duration, the count of iterations each loop
\* completed and the number of processes; with --cpu-seconds nan no loop
\* completes an iteration (line 40 compares with NaN) and lines 51 and 64
\* divide 0 by NaN
SampleCpus ==
    {CpuResult([CpuEntry(x[1], None) EXCEPT
                  !.single_bps =
                      Some(RatDiv(RatOfInt(cpu_sha256_worker(x[2])), x[1])),
                  !.max_procs = Some(x[3]),
                  !.multi_bytes = x[3] * cpu_sha256_worker(x[2])]) :
        x \in {<<Rat(1, 10), 1, 2>>, <<Rat(3, 1), 1, 1>>, <<NaN, 0, 2>>}}

SampleRams ==
    {LET rate == RatDiv(RatOfInt(x[1]), x[2])
         f == [RamEntry(None) EXCEPT !.target_bytes = Some(x[1]),
                                     !.copy = Some(rate),
                                     !.write = Some(rate)]
     IN  WithImplementation(RamResult(f, rate), x[3]) :
        x \in {<<MiB, Rat(1, 2), "numpy">>, <<64 * MiB, Rat(1, 1), "python">>,
               <<1, TimeFloor, "python">>}}

SampleNetworks ==
    {NetErrorResult(NetEntry(60), "speedtest module not available")}
    \cup {NetResult([NetEntry(60) EXCEPT !.download_bps = Some(d),
                                         !.upload_bps = Some(u)], p) :
            d \in DownloadRates, u \in UploadRates, p \in Pings}

SampleGpus ==
    LET none == [available |-> FALSE]
        found == Put(Put(none, "available", TRUE), "device", "T4")
    IN  {none,
         Put(none, "error", "RuntimeError: CUDA driver"),
         Put(found, "error", "RuntimeError: CUDA out of memory")}
        \cup {Put(none, "nvidia_smi", Strip(out)) : out \in SmiOutputs}
        \cup {Put(none, "nvidia_smi", <<"T", "4", "\n", "\"", "\\", "\t">>)}
        \cup {Put(Put(found, "gemm_gflops", GemmGflops(t)), "gemm_time_s", t) :
                t \in GemmTimes}

Reports ==
    {Report(s, c, r, n, g,
            scaled_config(theoretical_baseline, Rat(69, 100), Rat(27, 100))) :
        s \in SampleSystems, c \in SampleCpus, r \in SampleRams,
        n \in SampleNetworks, g \in SampleGpus}

InitJson ==
    /\ host = TwoCoreHost
    /\ args = NoArgs
    /\ jsonF \in {[pc |-> "dumps", obj |-> r, indent |-> b] :
                    r \in Reports, b \in BOOLEAN}
    /\ fmtF = Idle
    /\ mainF = Idle
    /\ cpuF = Idle
    /\ workers = NoWorkers
    /\ ramF = Idle
    /\ netF = Idle
    /\ gpuF = Idle
    /\ stdout = << >>
    /\ stderr = << >>

\* lines 400 and 406: the report is serialized
JsonDumps ==
    /\ jsonF.pc = "dumps"
    /\ jsonF' = [pc |-> "loads", obj |-> jsonF.obj, indent |-> jsonF.indent,
                 text |-> Dumps(ToJson(jsonF.obj), jsonF.indent)]
    /\ UNCHANGED <<host, args, fmtF, mainF, cpuF, workers, ramF, netF, gpuF,
                   stdout, stderr>>

\* a consumer parses the document
JsonLoads ==
    /\ jsonF.pc = "loads"
    /\ jsonF' = [pc |-> "loaded", obj |-> jsonF.obj, indent |-> jsonF.indent,
                 text |-> jsonF.text, back |-> Loads(jsonF.text)]
    /\ UNCHANGED <<host, args, fmtF, mainF, cpuF, workers, ramF, netF, gpuF,
                   stdout, stderr>>

NextJson ==
    \/ JsonDumps
    \/ JsonLoads

SpecJson == InitJson /\ [][NextJson]_vars

(***************************************************************************)
(* Claims about the JSON document, checked under SpecJson.                 *)
(***************************************************************************)
\* a == b on two decoded values: same type, equal value (a NaN float is
\* equal to nothing, itself included), and for objects the same keys with
\* equal values
RECURSIVE JsonEq(_, _)
JsonEq(a, b) ==
    /\ a.t = b.t
    /\ CASE a.t \in {"null", "true", "false"} -> TRUE
         [] a.t = "str" -> a.form = b.form /\ a.v = b.v
         [] a.t = "float" -> ~IsNaN(a.v) /\ a.v = b.v
         [] a.t = "obj" ->
              /\ Len(a.v) = Len(b.v)
              /\ \A i \in 1..Len(a.v) :
                   a.v[i].k = b.v[i].k /\ JsonEq(a.v[i].v, b.v[i].v)
         [] OTHER -> a.v = b.v

\* the member of an object under a key
Member(j, k) == j.v[CHOOSE i \in 1..Len(j.v) : j.v[i].k = k].v

\* no float of the report is NaN (NaN enters only through the duration)
Finite(report) == ~IsNaN(report.cpu.duration_s)

\* the round trip of the reports without NaN: the document read back has
\* the same keys and equal values at every level, written on one line or
\* indented
FiniteRoundTrip ==
    (jsonF.pc = "loaded" /\ Finite(jsonF.obj)) =>
        JsonEq(jsonF.back, ToJson(jsonF.obj))

\* C23: the document read back has the same keys and the same values as
\* the report at every level, for every report main can assemble.
\* Violated: the report of a run with --cpu-seconds nan holds NaN under
\* duration_s and the two CPU rates, which is written as the literal NaN
\* and read back as a NaN that is not equal to the one written.
C23_AsStated ==
    jsonF.pc = "loaded" => JsonEq(jsonF.back, ToJson(jsonF.obj))
====
